---------------------------- MODULE Spec2Model ----------------------------
(***************************************************************************)
(* Model of the Plan/Execute/Replan control loop (planner_executor.py,     *)
(* planner.py) and of the work-item orchestrator                           *)
(* (orchestrator/orchestrator.py, orchestrator/context.py).                *)
(*                                                                         *)
(* Four state machines share the module:                                   *)
(*   Spec      - PlannerExecutor.execute_with_replanning                   *)
(*   SpecExec  - one call of PlannerExecutor.execute_plan                  *)
(*   SpecPlan  - Planner.generate_plan                                     *)
(*   SpecOrch  - Orchestrator.run_work_items                               *)
(* Each leaves the variables of the others untouched.                      *)
(***************************************************************************)
EXTENDS Integers, Sequences, FiniteSets, TLC

(***************************************************************************)
(* Bounds of the model.                                                    *)
(***************************************************************************)
\* longest list of steps (compose_answer not counted) handed to execute_plan
MaxPlanLen == 2
\* longest list of steps of a plan seen by execute_with_replanning
MaxLoopPlanLen == 2
\* largest max_replans the executor is constructed with
MaxReplansBound == 2

(***************************************************************************)
(* Plan model (plan_types.py) and the tool registry (tools.py).            *)
(***************************************************************************)
NoTool == "None"
NoId == "-"
ComposeId == "compose_answer"

\* tools.TOOLS: the registered tool names
TOOLS == {"always_fail", "get_time", "get_weather", "fetch_url", "summarize_text"}

\* Step ids a plan source may use.  "0" is purely numeric (str.isdigit), and
\* its normalised name "step_1" is an id a plan may use as well.
StepIds == {"0", "a", "step_1"}

\* str.isdigit() and int() on the ids above
IsDigit(id) == id \in {"0"}
IntOf(id) == CASE id = "0" -> 0 [] OTHER -> 0

\* Python's order on the strings that occur as ids: "0" < "a" < "step_1"
IdOrder == <<"0", "a", "compose_answer", "step_1">>
IdRank(id) == CHOOSE i \in 1..Len(IdOrder) : IdOrder[i] = id
IdLess(x, y) == IdRank(x) < IdRank(y)

Range(s) == {s[i] : i \in 1..Len(s)}

\* PlanStep: id, tool, requires (description and args carry no control flow
\* in the executor)
PlanStep(id, tool, requires) == [id |-> id, tool |-> tool, requires |-> requires]

\* the compose step the normaliser puts last (planner.py _sanitize_requires):
\* no tool, requires every tool step
ComposeStep(steps) ==
    PlanStep(ComposeId, NoTool,
             {steps[i].id : i \in {j \in 1..Len(steps) : steps[j].tool # NoTool}})

\* Plan.steps of a plan whose other steps are `steps`
PlanOf(steps) == steps \o <<ComposeStep(steps)>>

RECURSIVE StepListsOfLen(_, _)
\* lists of exactly k steps of S with pairwise distinct ids
StepListsOfLen(k, S) ==
    IF k = 0 THEN {<<>>}
    ELSE UNION {{Append(s, st) : st \in {x \in S : \A y \in Range(s) : y.id # x.id}}
                : s \in StepListsOfLen(k - 1, S)}

\* lists of at most n such steps
StepLists(n, S) == UNION {StepListsOfLen(k, S) : k \in 0..n}

\* The steps of the plans handed to execute_plan on its own: any id; no tool,
\* a registered tool or an unregistered one; requires nothing, one id (its
\* own included) or every other id.
ExecRequires(id) == {{}} \cup {{x} : x \in StepIds} \cup {StepIds \ {id}}
ExecSteps ==
    UNION {{PlanStep(id, t, r) : t \in {NoTool, "get_time", "ghost_tool"},
                                 r \in ExecRequires(id)} : id \in StepIds}

\* the plans handed to execute_plan on its own
ExecPlans(n) == {PlanOf(s) : s \in StepLists(n, ExecSteps)}

\* The steps of the plans seen by execute_with_replanning: a non-numeric id;
\* a registered tool or an unregistered one; requires nothing or "a" (for
\* step "a": itself).
LoopSteps ==
    [id : {"a", "step_1"}, tool : {"get_time", "fetch_url", "ghost_tool"},
     requires : {{}, {"a"}}]

\* steps listed in the order of their ids
Ascending(steps) == \A i \in 1..(Len(steps) - 1) : IdLess(steps[i].id, steps[i + 1].id)

\* The plans a plan source hands to execute_with_replanning.  None of them
\* holds a numeric id, so the order of the list has no effect on
\* execute_plan; the lists are taken in id order.
LoopPlans ==
    {PlanOf(s) : s \in {l \in StepLists(MaxLoopPlanLen, LoopSteps) : Ascending(l)}}

\* PlannerExecutor(max_steps=25): the default ceiling
DefaultMaxSteps == 25
\* a ceiling below the longest plan
LowMaxSteps == 1

(***************************************************************************)
(* Tool results.  A tool returns a plain value, returns a soft-failure     *)
(* payload, or raises.                                                     *)
(***************************************************************************)
PlainResult == [dict |-> FALSE, ok |-> "absent", status |-> "absent", retryable |-> "absent"]
CarriedResult == [dict |-> FALSE, ok |-> "absent", status |-> "carried", retryable |-> "absent"]
SoftPayloads ==
    {[dict |-> TRUE, ok |-> "false", status |-> "absent", retryable |-> r] :
        r \in {"absent", "false", "true"}}
    \cup {[dict |-> TRUE, ok |-> "absent", status |-> "failed", retryable |-> "absent"]}
ToolReturns == {PlainResult} \cup SoftPayloads

\* _is_soft_failure
IsSoftFailure(out) ==
    /\ out.dict
    /\ \/ out.ok = "false"
       \/ out.status \in {"failed", "failure", "error"}

\* bool(payload.get("retryable", False))
Retryable(payload) == payload.dict /\ payload.retryable = "true"

EmptyMap == [k \in {} |-> PlainResult]
\* observation maps handed to execute_plan on its own: results carried from
\* an earlier call, under any of the ids
CarriedMaps == {[k \in K |-> CarriedResult] : K \in {{}} \cup {{id} : id \in StepIds}}
MapPut(m, k, v) == [x \in DOMAIN m \cup {k} |-> IF x = k THEN v ELSE m[x]]

(***************************************************************************)
(* Exceptions.                                                             *)
(***************************************************************************)
NoFault == [type |-> "none", msg |-> "none", step_id |-> NoId, tool_name |-> NoTool,
            payload |-> PlainResult]
Exc(type, msg, step_id, tool_name, payload) ==
    [type |-> type, msg |-> msg, step_id |-> step_id, tool_name |-> tool_name,
     payload |-> payload]
\* SoftToolFailure(step_id, tool_name, reason, payload)
SoftToolFailure(step_id, tool_name, payload) ==
    Exc("SoftToolFailure", "soft", step_id, tool_name, payload)
TooManySteps == Exc("RuntimeError", "too_many_tool_steps", NoId, NoTool, PlainResult)
DependencyCycle == Exc("RuntimeError", "dependency_cycle", NoId, NoTool, PlainResult)
\* RuntimeError(f"Unknown tool '{tool_name}' in step '{step.id}'.")
UnknownTool(step_id, tool_name) ==
    Exc("RuntimeError", "unknown_tool", step_id, tool_name, PlainResult)
\* whatever the tool function itself raised: it names neither step nor tool
ToolRaised == Exc("ToolError", "raised_by_tool", NoId, NoTool, PlainResult)

NoText == [kind |-> "none", exc |-> NoFault]
\* f"Soft failure in step '{e.step_id}' tool '{e.tool_name}': {e.reason}"
SoftFailureText(e) ==
    [kind |-> "soft", exc |-> Exc(e.type, e.msg, e.step_id, e.tool_name, PlainResult)]
\* f"Hard failure during tool execution: {e!r}"
HardFailureText(e) == [kind |-> "hard", exc |-> e]

\* what leaves execute_with_replanning as an exception
NoRaise == [msg |-> "none", last_failure |-> NoText]
\* RuntimeError(f"Exceeded max replans ({max_replans}). Last failure: {last_failure_text}")
ExceededMaxReplans(failure) ==
    [msg |-> "exceeded_max_replans", last_failure |-> failure]
\* an exception of planner.generate_plan, passing through
PlanSourceFault == [msg |-> "raised_by_plan_source", last_failure |-> NoText]

\* _format_observations: one "key: value" line per key, keys sorted; "(none)"
\* for an empty map
NoRequest == [observations_text |-> <<>>, failure_text |-> NoText, forbidden_tools |-> {}]

VARIABLES
    \* ---- execute_with_replanning ----
    pc,                 \* where the control loop stands
    max_replans,        \* PlannerExecutor.max_replans
    max_steps,          \* PlannerExecutor.max_steps
    current_plan,       \* Plan.steps handed to execute_plan
    observations,       \* the caller's observation map
    tool_calls,         \* the caller's tool_calls
    replans_used,
    forbidden_tools,
    last_failure_text,
    raised,             \* the exception that left the function, or NoFault
    \* ---- execute_plan (locals) ----
    exec_plan,          \* plan after _normalize_plan_ids
    exec_obs,           \* the local observations dict
    exec_alias,         \* the local dict is the caller's dict
    exec_calls,         \* the local tool_calls
    ordered,            \* steps of `ordered` not yet visited
    fault,              \* the exception execute_plan raised, or NoFault
    \* ---- the environment's record of what the executor did ----
    invocations,        \* number of tool functions called so far
    attempts,           \* number of execute_plan calls so far
    requests,           \* number of replan requests issued to the plan source
    last_request,       \* the arguments of the latest replan request
    done_before,        \* step ids whose tool call succeeded in an earlier attempt
    rerun,              \* a step id of done_before had its tool called again
    hard_failed,        \* names of the tools whose call raised
    input_plan,         \* the plan the current execute_plan call was given
    input_obs           \* the map the current execute_plan call was given

execVars == <<exec_plan, exec_obs, exec_alias, exec_calls, ordered, fault>>
loopVars == <<max_replans, max_steps, current_plan, observations, tool_calls,
              replans_used, forbidden_tools, last_failure_text, raised>>
envVars == <<invocations, attempts, requests, last_request, done_before, rerun,
             hard_failed, input_plan, input_obs>>

VARIABLES
    \* ---- Planner.generate_plan ----
    gp_pc,              \* where generate_plan stands
    is_replan,          \* the is_replan argument
    plan_forbidden,     \* the forbidden_tools argument
    memory_request,     \* user_input matches one of the two memory heuristics
    raw,                \* the first backend output
    text,               \* the backend output being parsed
    attempt,            \* the loop counter of _parse_or_repair_json
    plan_json,          \* the normalised plan dict's steps
    returned_plan,      \* the Plan generate_plan returned
    plan_fault,         \* the exception generate_plan raised, or "none"
    \* ---- the environment's record of what the planner did ----
    llm_calls,          \* number of call_llm calls so far
    calls_when_parsed,  \* llm_calls when the backend's plan had been parsed
    violated            \* _enforce_forbidden_tools raised

planVars == <<gp_pc, is_replan, plan_forbidden, memory_request, raw, text, attempt,
              plan_json, returned_plan, plan_fault, llm_calls, calls_when_parsed,
              violated>>

VARIABLES
    \* ---- Orchestrator.run_work_items ----
    orch_pc,            \* where run_work_items stands
    work_items,         \* the work_items argument
    policy,             \* OrchestratorPolicy
    remaining,          \* positions (in work_items) of the items still to run
    artifacts,          \* RunContext.artifacts
    results,            \* the results dict
    ready_wave,         \* positions of the items of the current wave
    tasks,              \* the state of each task of the parallel wave
    task_out,           \* what each task of the wave returned
    wave_fault,         \* the first exception a task of the wave raised
    orch_fault,         \* the exception run_work_items raised
    merged,             \* the string run_work_items returned
    \* ---- the environment's record of what the orchestrator did ----
    executing,          \* tasks of the wave whose role unit is running in a thread
    executed,           \* per position, how many times the role unit was called
    user_input          \* per position, the input the role unit was last called with

orchVars == <<orch_pc, work_items, policy, remaining, artifacts, results, ready_wave,
              tasks, task_out, wave_fault, orch_fault, merged, executing, executed,
              user_input>>

VARIABLES
    \* ---- Agent.run: one turn ----
    turn_pc,            \* where the turn stands
    turn_input,         \* the request
    turn_plan,          \* the plan the plan source gave
    turn_failed,        \* tool execution ended with a failure text
    turn_answer,        \* the text the turn returned
    \* ---- the environment's record of what the composer did ----
    turn_llm_calls      \* number of backend calls the composer made

turnVars == <<turn_pc, turn_input, turn_plan, turn_failed, turn_answer,
              turn_llm_calls>>

VARIABLES
    \* ---- RunContext.snapshot_selected called on its own ----
    snap_pc,            \* where the call stands
    snap_keys,          \* the keys argument
    snap_result         \* what the call returned or raised

snapVars == <<snap_pc, snap_keys, snap_result>>

vars == <<pc, loopVars, execVars, envVars, planVars, orchVars, turnVars, snapVars>>

(***************************************************************************)
(* _normalize_plan_ids / _remap_observations                               *)
(***************************************************************************)
\* f"step_{int(old) + 1}"
StepName(old) == "step_" \o ToString(IntOf(old) + 1)

\* id_map: old id -> new id, for the numeric ids of the plan
IdMap(steps) ==
    [old \in {steps[i].id : i \in {j \in 1..Len(steps) :
                  steps[j].id # ComposeId /\ IsDigit(steps[j].id)}}
        |-> StepName(old)]

\* id_map.get(x, x)
MapGet(id_map, x) == IF x \in DOMAIN id_map THEN id_map[x] ELSE x

NormalizePlanIds(steps) ==
    LET id_map == IdMap(steps) IN
    IF DOMAIN id_map = {}
    THEN [steps |-> steps, id_map |-> id_map]
    ELSE [steps |-> [i \in 1..Len(steps) |->
                        PlanStep(MapGet(id_map, steps[i].id), steps[i].tool,
                                 {MapGet(id_map, r) : r \in steps[i].requires})],
          id_map |-> id_map]

\* Keys that map to one new key overwrite each other in dict order; every map
\* carried into execute_plan here holds one value for such keys, so the value
\* kept does not depend on that order.
RemapObservations(obs, id_map) ==
    IF DOMAIN id_map = {}
    THEN obs
    ELSE [nk \in {MapGet(id_map, k) : k \in DOMAIN obs} |->
            obs[CHOOSE k \in DOMAIN obs : MapGet(id_map, k) = nk]]

(***************************************************************************)
(* _order_steps: Kahn's algorithm with a sorted ready list                 *)
(***************************************************************************)
RECURSIVE SortIds(_)
\* sorted(ids)
SortIds(S) ==
    IF S = {} THEN <<>>
    ELSE LET m == CHOOSE x \in S : \A y \in S : x = y \/ IdLess(x, y)
         IN <<m>> \o SortIds(S \ {m})

\* by_id = {s.id: s for s in steps}: a later step replaces an earlier one
\* of the same id
ById(steps) ==
    [id \in {steps[i].id : i \in 1..Len(steps)} |->
        steps[CHOOSE i \in 1..Len(steps) :
                /\ steps[i].id = id
                /\ \A j \in 1..Len(steps) : steps[j].id = id => j <= i]]

\* deps = {s.id: set(r for r in s.requires if r in by_id) for s in steps}
InitialDeps(steps) ==
    LET by_id == ById(steps) IN
    [id \in DOMAIN by_id |-> {r \in by_id[id].requires : r \in DOMAIN by_id}]

RECURSIVE KahnLoop(_, _, _, _)
\* the while-ready loop: pop the head, strike it from the other entries,
\* append those that became empty and sort again
KahnLoop(by_id, deps, ready, out) ==
    IF ready = <<>>
    THEN [ordered |-> out, residual |-> DOMAIN deps]
    ELSE LET sid == Head(ready)
             freed == {o \in DOMAIN deps : sid \in deps[o] /\ deps[o] \ {sid} = {}}
             struck == [o \in DOMAIN deps |-> deps[o] \ {sid}]
             popped == [o \in DOMAIN deps \ {sid} |-> struck[o]]
         IN KahnLoop(by_id, popped, SortIds(Range(Tail(ready)) \cup freed),
                     Append(out, by_id[sid]))

\* ordered list, and the ids left over (non-empty: cycle)
OrderSteps(steps) ==
    LET deps == InitialDeps(steps)
        ready == SortIds({id \in DOMAIN deps : deps[id] = {}})
    IN KahnLoop(ById(steps), deps, ready, <<>>)

\* the filter that lets every step through, the compose step included
IsAnyStep(s) == s.id # NoId

\* tool_steps = [s for s in plan.steps if s.tool is not None and s.id != "compose_answer"]
IsToolStep(s) == s.tool # NoTool /\ s.id # ComposeId

\* the filter that loses the first tool step, so that the ceiling test
\* counts one step too few
ToolStepsButFirst(steps) ==
    IF SelectSeq(steps, IsToolStep) = <<>> THEN <<>> ELSE Tail(SelectSeq(steps, IsToolStep))
ToolSteps(steps) == SelectSeq(steps, IsToolStep)


\* _format_observations: the sorted "key: value" lines ("(none)" when empty)
FormatObservations(obs) ==
    LET keys == SortIds(DOMAIN obs) IN
    [i \in 1..Len(keys) |-> <<keys[i], obs[keys[i]]>>]

(***************************************************************************)
(* execute_plan, lines 53-96                                               *)
(***************************************************************************)
\* lines 59-71: normalise ids, remap observations, check the ceiling, order
ExecutePlanBegin ==
    /\ pc = "execute_plan"
    /\ LET norm == NormalizePlanIds(current_plan)
           \* `observations or {}`: an empty map is replaced by a fresh one
           remapped == RemapObservations(observations, norm.id_map)
           tool_steps == ToolSteps(norm.steps)
           sorted == OrderSteps(tool_steps)
       IN /\ exec_plan' = norm.steps
          /\ exec_obs' = remapped
          /\ exec_alias' = (DOMAIN observations # {} /\ DOMAIN norm.id_map = {})
          /\ exec_calls' = <<>>
          /\ IF Len(tool_steps) > max_steps
             THEN /\ fault' = TooManySteps
                  /\ ordered' = <<>>
                  /\ pc' = "exec_raised"
             ELSE IF sorted.residual # {}
             THEN /\ fault' = DependencyCycle
                  /\ ordered' = <<>>
                  /\ pc' = "exec_raised"
             ELSE /\ fault' = NoFault
                  /\ ordered' = sorted.ordered
                  /\ pc' = "exec_loop"
    /\ attempts' = attempts + 1
    /\ input_plan' = current_plan
    /\ input_obs' = observations
    /\ UNCHANGED <<loopVars, invocations, requests, last_request, done_before,
                   rerun, hard_failed>>
    /\ UNCHANGED <<planVars, orchVars, turnVars, snapVars>>

\* lines 75-76: the step's id is in the observation map
SkipStep ==
    /\ pc = "exec_loop"
    /\ ordered # <<>>
    /\ Head(ordered).id \in DOMAIN exec_obs
    /\ ordered' = Tail(ordered)
    /\ UNCHANGED <<pc, loopVars, exec_plan, exec_obs, exec_alias, exec_calls, fault,
                   envVars>>
    /\ UNCHANGED <<planVars, orchVars, turnVars, snapVars>>

\* the local dict after observations[step.id] = out; the caller's dict too
\* when the two are one object
Store(id, out) ==
    /\ exec_obs' = MapPut(exec_obs, id, out)
    /\ observations' = IF exec_alias THEN MapPut(exec_obs, id, out) ELSE observations

\* lines 81-88 with _run_tool_step (266-282): one tool step the map does not hold
RunToolStep ==
    /\ pc = "exec_loop"
    /\ ordered # <<>>
    /\ Head(ordered).id \notin DOMAIN exec_obs
    /\ LET step == Head(ordered) IN
       \/ \* tool_name not in TOOLS
          /\ step.tool \notin TOOLS
          /\ fault' = UnknownTool(step.id, step.tool)
          /\ pc' = "exec_raised"
          /\ UNCHANGED <<exec_obs, observations, exec_calls, ordered, invocations,
                         rerun, hard_failed>>
       \/ \* fn(**args) returns
          /\ step.tool \in TOOLS
          /\ \E out \in ToolReturns :
                /\ Store(step.id, out)
                /\ exec_calls' = Append(exec_calls, step.id)
                /\ IF IsSoftFailure(out)
                   THEN /\ fault' = SoftToolFailure(step.id, step.tool, out)
                        /\ pc' = "exec_raised"
                        /\ ordered' = ordered
                   ELSE /\ fault' = fault
                        /\ pc' = pc
                        /\ ordered' = Tail(ordered)
          /\ invocations' = invocations + 1
          /\ rerun' = (rerun \/ step.id \in done_before)
          /\ UNCHANGED hard_failed
       \/ \* fn(**args) raises
          /\ step.tool \in TOOLS
          /\ fault' = ToolRaised
          /\ pc' = "exec_raised"
          /\ invocations' = invocations + 1
          /\ rerun' = (rerun \/ step.id \in done_before)
          /\ hard_failed' = hard_failed \cup {step.tool}
          /\ UNCHANGED <<exec_obs, observations, exec_calls, ordered>>
    /\ UNCHANGED <<max_replans, max_steps, current_plan, tool_calls, replans_used,
                   forbidden_tools, last_failure_text, raised, exec_plan, exec_alias,
                   attempts, requests, last_request, done_before, input_plan,
                   input_obs>>
    /\ UNCHANGED <<planVars, orchVars, turnVars, snapVars>>

\* lines 90-96: every step visited
ExecutePlanReturn ==
    /\ pc = "exec_loop"
    /\ ordered = <<>>
    /\ pc' = "exec_returned"
    /\ UNCHANGED <<loopVars, execVars, envVars>>
    /\ UNCHANGED <<planVars, orchVars, turnVars, snapVars>>

(***************************************************************************)
(* execute_with_replanning, lines 98-181                                   *)
(***************************************************************************)
\* the locals of execute_plan once its frame is gone
ExecFrameGone ==
    /\ exec_plan' = <<>>
    /\ exec_obs' = EmptyMap
    /\ exec_alias' = FALSE
    /\ exec_calls' = <<>>
    /\ ordered' = <<>>
    /\ fault' = NoFault

\* lines 127-137
ReturnResult ==
    /\ pc = "exec_returned"
    /\ current_plan' = exec_plan
    /\ observations' = exec_obs
    /\ tool_calls' = tool_calls \o exec_calls
    /\ pc' = "done"
    /\ ExecFrameGone
    /\ UNCHANGED <<max_replans, max_steps, replans_used, forbidden_tools,
                   last_failure_text, raised, envVars>>
    /\ UNCHANGED <<planVars, orchVars, turnVars, snapVars>>

\* the step ids whose tool call returned a plain result in this attempt
SucceededNow == {id \in Range(exec_calls) : ~IsSoftFailure(exec_obs[id])}

\* the replan that turns a fault of the plan source into the max-replans
\* fault
ReplanConvertsFault(failure, forbidden) ==
    /\ requests' = requests + 1
    /\ last_request' = [observations_text |-> FormatObservations(observations),
                        failure_text |-> failure,
                        forbidden_tools |-> forbidden]
    /\ \/ /\ \E plan \in LoopPlans : current_plan' = plan
          /\ pc' = "execute_plan"
          /\ raised' = raised
       \/ /\ raised' = ExceededMaxReplans(failure)
          /\ pc' = "failed"
          /\ current_plan' = current_plan

\* _replan (332-354): the request, and the plan source's answer (a plan, or
\* an exception)
Replan(failure, forbidden) ==
    /\ requests' = requests + 1
    /\ last_request' = [observations_text |-> FormatObservations(observations),
                        failure_text |-> failure,
                        forbidden_tools |-> forbidden]
    /\ \/ /\ \E plan \in LoopPlans : current_plan' = plan
          /\ pc' = "execute_plan"
          /\ raised' = raised
       \/ /\ raised' = PlanSourceFault
          /\ pc' = "failed"
          /\ current_plan' = current_plan

\* the off-by-one budget test: one replan more than max_replans
BudgetExhaustedLate(used) == used > max_replans + 1

\* `if replans_used > self.max_replans`, lines 149 and 169
BudgetExhausted(used) == used > max_replans

\* lines 139-161 / 163-181 after the bookkeeping: stop, or replan
StopOrReplan(failure, forbidden) ==
    /\ replans_used' = replans_used + 1
    /\ last_failure_text' = failure
    /\ forbidden_tools' = forbidden
    /\ done_before' = done_before \cup SucceededNow
    /\ IF BudgetExhausted(replans_used + 1)
       THEN /\ raised' = ExceededMaxReplans(failure)
            /\ pc' = "failed"
            /\ UNCHANGED <<current_plan, requests, last_request>>
       ELSE Replan(failure, forbidden)
    /\ ExecFrameGone
    /\ UNCHANGED <<max_replans, max_steps, observations, tool_calls,
                   invocations, attempts, rerun, hard_failed, input_plan, input_obs>>

\* the soft-failure rule that forbids the tool whatever the payload says
ForbidAlways(e) == forbidden_tools \cup {e.tool_name}

\* the forbidden set after a soft failure, lines 145-147
ForbidAfterSoft(e) ==
    IF ~Retryable(e.payload) /\ e.tool_name # ""
    THEN forbidden_tools \cup {e.tool_name}
    ELSE forbidden_tools

\* except SoftToolFailure, lines 139-161
HandleSoftFailure ==
    /\ pc = "exec_raised"
    /\ fault.type = "SoftToolFailure"
    /\ StopOrReplan(SoftFailureText(fault), ForbidAfterSoft(fault))
    /\ UNCHANGED <<planVars, orchVars, turnVars, snapVars>>

\* the hard-failure rule that starts the forbidden set afresh
ForbidNothing(e) == {}

\* the forbidden set after any other exception, lines 163-167: untouched
ForbidAfterHard(e) == forbidden_tools

\* except Exception, lines 163-181
HandleHardFailure ==
    /\ pc = "exec_raised"
    /\ fault.type # "SoftToolFailure"
    /\ StopOrReplan(HardFailureText(fault), ForbidAfterHard(fault))
    /\ UNCHANGED <<planVars, orchVars, turnVars, snapVars>>

(***************************************************************************)
(* Planner: what the text backend may answer                               *)
(***************************************************************************)
\* longest steps list in a backend answer
MaxRawLen == 2

NoArgs == "None"
AbsentId == "absent"

\* one element of the "steps" list of a backend answer; `dict` is whether
\* the element is a JSON object at all
RawStep(id, tool, args, requires) ==
    [dict |-> TRUE, id |-> id, tool |-> tool, args |-> args, requires |-> requires]

RawSteps ==
    {RawStep(id, tool, "object", req) :
        id \in {"a", ComposeId},
        tool \in {NoTool, "get_time", "ghost_tool"},
        req \in {<<>>, <<"a", "zz">>}}
    \cup {RawStep("b", "get_time", "object", <<"a", "zz">>),
          RawStep("b", "fetch_url", "object", <<>>),
          RawStep(AbsentId, "get_time", "text", <<>>),
          [dict |-> FALSE, id |-> AbsentId, tool |-> NoTool, args |-> NoArgs,
           requires |-> <<>>]}

\* a tool step whose args hold a "$ref" placeholder
RefStep == RawStep("a", "fetch_url", "ref", <<>>)

RECURSIVE RawListsOfLen(_)
RawListsOfLen(k) ==
    IF k = 0 THEN {<<>>}
    ELSE {Append(l, st) : l \in RawListsOfLen(k - 1), st \in RawSteps}

\* backend outputs, by what _parse_json makes of them after the sanitiser
\* and the fence/brace salvage: nothing that parses, JSON that is no plan
\* object, or a plan object with its steps
BackendTexts ==
    {[kind |-> "garbage", steps |-> <<>>],
     [kind |-> "no_steps", steps |-> <<>>],
     [kind |-> "plan", steps |-> <<RefStep>>],
     [kind |-> "plan", steps |-> <<RawStep("b", "ghost_tool", "object", <<>>), RefStep>>]}
    \cup {[kind |-> "plan", steps |-> l] :
             l \in UNION {RawListsOfLen(k) : k \in 0..MaxRawLen}}

NoTextYet == [kind |-> "none", steps |-> <<>>]

\* forbidden_tools arguments
ForbiddenSets == {{}, {"get_time"}, {"get_time", "fetch_url"}, {"ghost_tool"}}

(***************************************************************************)
(* Planner: normalisation, lines 449-631                                   *)
(***************************************************************************)
MAX_JSON_REPAIR_ATTEMPTS == 2

JsonStep(id, tool, args, requires, coerced) ==
    [id |-> id, tool |-> tool, args |-> args, requires |-> requires,
     coerced |-> coerced]

\* the compose step that _ensure_compose_answer, _prune_... and
\* _deterministic_replan_plan write
ComposeJson == JsonStep(ComposeId, NoTool, NoArgs, <<>>, FALSE)

\* _ensure_step_fields, lines 475-508
EnsureStepFields(steps) ==
    LET Field(i) ==
            LET st == steps[i] IN
            [dict |-> st.dict,
             id |-> IF st.id = AbsentId THEN "step_" \o ToString(i) ELSE st.id,
             tool |-> st.tool,
             args |-> IF st.tool = NoTool THEN NoArgs
                      ELSE IF st.args \in {"object", "ref"} THEN st.args
                      ELSE "object",
             requires |-> st.requires]
        fields == [i \in 1..Len(steps) |-> Field(i)]
        dicts == SelectSeq(fields, LAMBDA f : f.dict)
    IN [i \in 1..Len(dicts) |->
          JsonStep(dicts[i].id, dicts[i].tool, dicts[i].args, dicts[i].requires, FALSE)]

\* the coercion that leaves an invented tool in place
LeaveUnknownTools(steps) == steps

\* _coerce_unknown_tools_to_none, lines 510-526
CoerceUnknownToolsToNone(steps) ==
    [i \in 1..Len(steps) |->
        IF steps[i].tool # NoTool /\ steps[i].tool \notin TOOLS
        THEN [steps[i] EXCEPT !.tool = NoTool, !.args = NoArgs, !.coerced = TRUE]
        ELSE steps[i]]

\* _ensure_compose_answer, lines 528-541
EnsureComposeAnswer(steps) ==
    IF \E i \in 1..Len(steps) : steps[i].id = ComposeId
    THEN steps
    ELSE Append(steps, ComposeJson)

\* _prune_intermediate_non_tool_steps, lines 543-579
PruneIntermediateNonToolSteps(steps) ==
    LET tool_steps == SelectSeq(steps, LAMBDA st : st.id # ComposeId /\ st.tool # NoTool)
        coerced_unknown_steps ==
            SelectSeq(steps, LAMBDA st : st.id # ComposeId /\ st.tool = NoTool /\ st.coerced)
        composes == SelectSeq(steps, LAMBDA st : st.id = ComposeId)
        compose == IF composes = <<>> THEN ComposeJson
                   ELSE [composes[1] EXCEPT !.tool = NoTool, !.args = NoArgs]
    IN tool_steps \o coerced_unknown_steps \o <<compose>>

\* the sanitiser that leaves compose_answer the requires it was proposed
KeepProposedRequires(steps) ==
    LET ids == {steps[i].id : i \in 1..Len(steps)}
    IN [i \in 1..Len(steps) |->
          [steps[i] EXCEPT !.requires =
              SelectSeq(steps[i].requires, LAMBDA r : r \in ids /\ r # steps[i].id)]]

\* the sanitiser that rewrites compose_answer alone and leaves the requires
\* of the other steps as proposed
SanitizeComposeOnly(steps) ==
    LET tools == SelectSeq(steps, LAMBDA st : st.id # ComposeId /\ st.tool # NoTool)
    IN [i \in 1..Len(steps) |->
          IF steps[i].id = ComposeId /\ \A j \in 1..(i - 1) : steps[j].id # ComposeId
          THEN [steps[i] EXCEPT !.requires = [k \in 1..Len(tools) |-> tools[k].id]]
          ELSE steps[i]]

\* _sanitize_requires, lines 581-599
SanitizeRequires(steps) ==
    LET ids == {steps[i].id : i \in 1..Len(steps)}
        kept == [i \in 1..Len(steps) |->
                   [steps[i] EXCEPT !.requires =
                       SelectSeq(steps[i].requires,
                                 LAMBDA r : r \in ids /\ r # steps[i].id)]]
        tools == SelectSeq(kept, LAMBDA st : st.id # ComposeId /\ st.tool # NoTool)
        first == CHOOSE i \in 1..Len(kept) :
                    /\ kept[i].id = ComposeId
                    /\ \A j \in 1..(i - 1) : kept[j].id # ComposeId
    IN IF \E i \in 1..Len(kept) : kept[i].id = ComposeId
       THEN [kept EXCEPT ![first].requires = [i \in 1..Len(tools) |-> tools[i].id]]
       ELSE kept

\* _validate_tools, lines 601-620: TRUE when it does not raise
ValidateTools(steps) ==
    \A i \in 1..Len(steps) :
        steps[i].tool # NoTool =>
            /\ steps[i].tool \in TOOLS
            /\ steps[i].args # NoArgs
            /\ steps[i].args # "ref"

\* _normalise_plan_json, lines 449-473, on the steps of a plan object
NormalisePlanJson(steps) ==
    LET plan == SanitizeRequires(PruneIntermediateNonToolSteps(EnsureComposeAnswer(
                    CoerceUnknownToolsToNone(EnsureStepFields(steps)))))
    IN [ok |-> ValidateTools(plan), steps |-> plan]

\* _parse_json, lines 368-421
ParseJson(t) ==
    IF t.kind = "plan" THEN NormalisePlanJson(t.steps)
    ELSE [ok |-> FALSE, steps |-> <<>>]

\* the enforcement that never finds a violation
NoViolation(steps, forbidden) == {}

\* _enforce_forbidden_tools, lines 622-631: the set `violating`
Violating(steps, forbidden) ==
    {steps[i].tool : i \in {j \in 1..Len(steps) :
                              steps[j].tool # NoTool /\ steps[j].tool \in forbidden}}

\* _deterministic_replan_plan, lines 264-285, and the two memory shortcuts
DeterministicReplanPlan == <<ComposeJson>>

\* _to_plan, lines 635-648
ToPlan(steps) ==
    [i \in 1..Len(steps) |->
        [id |-> steps[i].id, tool |-> steps[i].tool, args |-> steps[i].args,
         requires |-> steps[i].requires]]

NoPlan == <<>>

(***************************************************************************)
(* Planner.generate_plan, lines 51-146                                     *)
(***************************************************************************)
\* lines 62-116: the memory shortcuts, or the generation call
GeneratePlanCall ==
    /\ gp_pc = "generate_plan"
    /\ \/ /\ ~is_replan /\ memory_request
          /\ returned_plan' = ToPlan(DeterministicReplanPlan)
          /\ gp_pc' = "returned"
          /\ UNCHANGED <<raw, text, llm_calls, plan_fault>>
       \/ /\ is_replan \/ ~memory_request
          /\ \E t \in BackendTexts : raw' = t /\ text' = t
          /\ llm_calls' = llm_calls + 1
          /\ gp_pc' = "parse"
          /\ UNCHANGED <<returned_plan, plan_fault>>
       \/ /\ is_replan \/ ~memory_request
          /\ llm_calls' = llm_calls + 1
          /\ plan_fault' = "backend_raised"
          /\ gp_pc' = "raised"
          /\ UNCHANGED <<raw, text, returned_plan>>
    /\ UNCHANGED <<is_replan, plan_forbidden, memory_request, attempt, plan_json,
                   calls_when_parsed, violated>>
    /\ UNCHANGED <<pc, loopVars, execVars, envVars, orchVars, turnVars, snapVars>>

\* lines 131-146 once the backend's plan is parsed: enforce the forbidden
\* tools, fall back or raise, return
EnforceAndReturn(steps) ==
    LET violating == IF plan_forbidden = {} THEN {}
                     ELSE Violating(steps, plan_forbidden)
    IN /\ plan_json' = steps
       /\ calls_when_parsed' = llm_calls
       /\ violated' = (violating # {})
       /\ IF violating # {} /\ ~is_replan
          THEN /\ plan_fault' = "forbidden_tools"
               /\ gp_pc' = "raised"
               /\ UNCHANGED returned_plan
          ELSE /\ returned_plan' = IF violating # {}
                                   THEN ToPlan(DeterministicReplanPlan)
                                   ELSE ToPlan(steps)
               /\ gp_pc' = "returned"
               /\ UNCHANGED plan_fault
       /\ raw' = NoTextYet
       /\ text' = NoTextYet
       /\ attempt' = 0

\* the loop that asks the backend again after every text that does not
\* parse, with no ceiling on the rounds
RepairWithoutCeiling ==
    /\ gp_pc = "parse"
    /\ LET parsed == ParseJson(text) IN
       \/ /\ parsed.ok
          /\ EnforceAndReturn(parsed.steps)
          /\ UNCHANGED llm_calls
       \/ /\ ~parsed.ok
          /\ \E t \in BackendTexts : text' = t
          /\ attempt' = attempt + 1
          /\ llm_calls' = llm_calls + 1
          /\ UNCHANGED <<gp_pc, raw, plan_json, calls_when_parsed, plan_fault,
                         returned_plan, violated>>
    /\ UNCHANGED <<is_replan, plan_forbidden, memory_request>>
    /\ UNCHANGED <<pc, loopVars, execVars, envVars, orchVars, turnVars, snapVars>>

\* _parse_or_repair_json, lines 306-341: one round of the loop; when the
\* text parses, the rest of generate_plan (lines 131-146)
ParseOrRepairJson ==
    /\ gp_pc = "parse"
    /\ LET parsed == ParseJson(text) IN
       \/ /\ parsed.ok
          /\ EnforceAndReturn(parsed.steps)
          /\ UNCHANGED llm_calls
       \/ /\ ~parsed.ok
          /\ attempt >= MAX_JSON_REPAIR_ATTEMPTS
          /\ plan_fault' = "not_valid_json_after_repair"
          /\ gp_pc' = "raised"
          /\ UNCHANGED <<raw, text, attempt, llm_calls, plan_json, calls_when_parsed,
                         returned_plan, violated>>
       \/ /\ ~parsed.ok
          /\ attempt < MAX_JSON_REPAIR_ATTEMPTS
          /\ \E t \in BackendTexts : text' = t
          /\ attempt' = attempt + 1
          /\ llm_calls' = llm_calls + 1
          /\ UNCHANGED <<gp_pc, raw, plan_json, calls_when_parsed, plan_fault,
                         returned_plan, violated>>
       \/ /\ ~parsed.ok
          /\ attempt < MAX_JSON_REPAIR_ATTEMPTS
          /\ llm_calls' = llm_calls + 1
          /\ plan_fault' = "backend_raised"
          /\ gp_pc' = "raised"
          /\ UNCHANGED <<raw, text, attempt, plan_json, calls_when_parsed,
                         returned_plan, violated>>
    /\ UNCHANGED <<is_replan, plan_forbidden, memory_request>>
    /\ UNCHANGED <<pc, loopVars, execVars, envVars, orchVars, turnVars, snapVars>>

\* lines 338-341: the text the ValueError of _parse_or_repair_json quotes
\* after "Raw:", the `raw` argument
FaultRaw == raw

\* the planner before generate_plan is called
PlanLocals ==
    /\ raw = NoTextYet
    /\ text = NoTextYet
    /\ attempt = 0
    /\ plan_json = <<>>
    /\ returned_plan = NoPlan
    /\ plan_fault = "none"
    /\ llm_calls = 0
    /\ calls_when_parsed = 0
    /\ violated = FALSE

PlanIdle ==
    /\ gp_pc = "idle"
    /\ is_replan = FALSE
    /\ plan_forbidden = {}
    /\ memory_request = FALSE
    /\ PlanLocals

(***************************************************************************)
(* Orchestrator: work items, policies, role-unit outputs                   *)
(***************************************************************************)
\* longest work-item list
MaxItems == 2
\* largest max_concurrency
MaxConcurrencyBound == 2
\* a max_work_items small enough to be exceeded
LowMaxWorkItems == 1
\* OrchestratorPolicy.max_work_items
DefaultMaxWorkItems == 10

ItemIds == {"w1", "w2", "w3"}

\* f"{wi.id}.output"
KeyOf(id) == id \o ".output"

\* an artifact key no work item produces
StrayKey == "x.output"

WorkItem(id, depends_on) == [id |-> id, depends_on |-> depends_on]

WorkItems ==
    {WorkItem(id, deps) :
        id \in ItemIds,
        deps \in {{}, {KeyOf("w1")}, {KeyOf("w2")}, {StrayKey},
                  {KeyOf("w1"), KeyOf("w2")}}}

RECURSIVE ItemListsOfLen(_)
ItemListsOfLen(k) ==
    IF k = 0 THEN {<<>>}
    ELSE {Append(l, wi) : l \in ItemListsOfLen(k - 1), wi \in WorkItems}

ItemLists(n) == UNION {ItemListsOfLen(k) : k \in 0..n}

\* a producer followed by two items, each of them independent or fed by it:
\* the lists whose second wave can hold more than one item
FanOutLists ==
    {<<WorkItem("w1", {}), WorkItem("w2", d2), WorkItem("w3", d3)>> :
        d2 \in {{}, {KeyOf("w1")}}, d3 \in {{}, {KeyOf("w1")}}}

TemplateNames == {"single", "design_review", "draft_review_revise"}

\* the draft/review/revise template with the review wired to the revision
MiswiredTemplate(template) ==
    CASE template = "single" -> <<WorkItem("work-001", {})>>
      [] template = "design_review" ->
            <<WorkItem("task-001", {}),
              WorkItem("task-002", {"task-001.output"}),
              WorkItem("task-003", {"task-001.output", "task-002.output"})>>
      [] template = "draft_review_revise" ->
            <<WorkItem("draft", {}),
              WorkItem("review", {"draft.output", "revise.output"}),
              WorkItem("revise", {"draft.output", "review.output"})>>

\* build_work_items_for_template (routing.py 9-95): id and depends_on of the
\* items of each template
BuildWorkItemsForTemplate(template) ==
    CASE template = "single" -> <<WorkItem("work-001", {})>>
      [] template = "design_review" ->
            <<WorkItem("task-001", {}),
              WorkItem("task-002", {"task-001.output"}),
              WorkItem("task-003", {"task-001.output", "task-002.output"})>>
      [] template = "draft_review_revise" ->
            <<WorkItem("draft", {}),
              WorkItem("review", {"draft.output"}),
              WorkItem("revise", {"draft.output", "review.output"})>>

\* run_template (orchestrator.py 52-55): the lists handed to run_work_items
TemplateLists == {BuildWorkItemsForTemplate(t) : t \in TemplateNames}

Policies ==
    [max_work_items : {LowMaxWorkItems, DefaultMaxWorkItems},
     max_concurrency : 1..MaxConcurrencyBound,
     enable_parallel : BOOLEAN]

\* what a role unit may return
Outputs == {"text", "text \n"}

\* str.rstrip on the outputs and on ""
Rstrip(out) == IF out = "text \n" THEN "text" ELSE out

NoArtifacts == [k \in {} |-> [value |-> "", producer |-> ""]]
NoResults == [k \in {} |-> ""]
NoOrchFault == [msg |-> "none", detail |-> {}]
NoMerged == [kind |-> "none", body |-> "", sections |-> <<>>]
\* the role unit of the item has not been called
NoInput == [item |-> 0, selected |-> NoArtifacts]

(***************************************************************************)
(* Orchestrator helpers, lines 149-231, and RunContext.add_artifact        *)
(***************************************************************************)
Item(i) == work_items[i]

\* the selection that takes every remaining item for ready
AllRemaining(rem, arts) == rem

\* the selection that stops at the first ready item
FirstReadyOnly(rem, arts) ==
    LET all == SelectSeq(rem, LAMBDA i : Item(i).depends_on \subseteq DOMAIN arts)
    IN IF all = <<>> THEN <<>> ELSE <<all[1]>>

\* _select_ready_work_items, lines 149-155
SelectReadyWorkItems(rem, arts) ==
    SelectSeq(rem, LAMBDA i : Item(i).depends_on \subseteq DOMAIN arts)

\* lines 89-94: missing_detail, a dict keyed by item id: of the remaining
\* items that share an id and miss a key, the last one's entry is kept
MissingDetail(rem, arts) ==
    LET lacking == SelectSeq(rem, LAMBDA i : Item(i).depends_on \ DOMAIN arts # {})
    IN {[id |-> Item(lacking[k]).id, missing |-> Item(lacking[k]).depends_on \ DOMAIN arts] :
           k \in {m \in 1..Len(lacking) :
                     \A n \in (m + 1)..Len(lacking) :
                         Item(lacking[n]).id # Item(lacking[m]).id}}

\* lines 96-99: the fault when no remaining item is runnable
StuckFault(rem, arts) ==
    IF MissingDetail(rem, arts) # {}
    THEN [msg |-> "missing_artifacts", detail |-> MissingDetail(rem, arts)]
    ELSE [msg |-> "no_runnable_items", detail |-> {}]

\* RunContext.snapshot (context.py 31-42): every artifact
Snapshot(keys, arts) == [ok |-> TRUE, selected |-> arts]

\* the selection that passes over a key that is absent
SelectPresentOnly(keys, arts) ==
    [ok |-> TRUE, selected |-> [k \in keys \cap DOMAIN arts |-> arts[k]]]

\* RunContext.snapshot_selected (context.py 43-52): the artifacts named by
\* `keys`, or KeyError when one of them is missing
SnapshotSelected(keys, arts) ==
    IF keys \ DOMAIN arts # {}
    THEN [ok |-> FALSE, selected |-> NoArtifacts]
    ELSE [ok |-> TRUE, selected |-> [k \in keys |-> arts[k]]]

\* lines 161-163 and 179-181: nothing is selected for an empty depends_on
SelectedFor(i, arts) ==
    IF Item(i).depends_on = {} THEN [ok |-> TRUE, selected |-> NoArtifacts]
    ELSE SnapshotSelected(Item(i).depends_on, arts)

\* _compose_user_input, lines 131-140: the goal and the initial context of
\* the item, then the selected artifacts (no such part when none is selected)
ComposeUserInput(i, selected) == [item |-> i, selected |-> selected]

\* the recording whose add_artifact replaces an artifact already there
RecordOverwriting(i, out, st) ==
    IF ~st.ok THEN st
    ELSE [ok |-> TRUE,
          artifacts |-> MapPut(st.artifacts, KeyOf(Item(i).id),
                               [value |-> out, producer |-> Item(i).id]),
          results |-> MapPut(st.results, Item(i).id, out)]

\* _record_output (210-218) with RunContext.add_artifact (context.py 23-26)
RecordOutput(i, out, st) ==
    IF ~st.ok THEN st
    ELSE IF KeyOf(Item(i).id) \in DOMAIN st.artifacts
    THEN [st EXCEPT !.ok = FALSE]
    ELSE [ok |-> TRUE,
          artifacts |-> MapPut(st.artifacts, KeyOf(Item(i).id),
                               [value |-> out, producer |-> Item(i).id]),
          results |-> MapPut(st.results, Item(i).id, out)]

\* lines 121-123: record the outputs of the wave in wave order
RECURSIVE RecordWave(_, _, _)
RecordWave(wave, outs, st) ==
    IF wave = <<>> THEN st
    ELSE RecordWave(Tail(wave), outs, RecordOutput(Head(wave), outs[Item(Head(wave)).id], st))

\* line 205: {k: v for (k, v) in pairs}, the last pair of an id wins
OutsById(wave, outputs) ==
    [id \in {Item(wave[k]).id : k \in 1..Len(wave)} |->
        LET last == CHOOSE k \in 1..Len(wave) :
                        /\ Item(wave[k]).id = id
                        /\ \A m \in (k + 1)..Len(wave) : Item(wave[m]).id # id
        IN outputs[last]]

\* the bookkeeping that leaves the wave in the remaining list
AfterWaveKeepsAll(rem, wave) == rem

\* lines 125-126
AfterWave(rem, wave) ==
    SelectSeq(rem, LAMBDA i : Item(i).id \notin {Item(wave[k]).id : k \in 1..Len(wave)})

\* results.get(wi.id, "")
ResultOf(res, id) == IF id \in DOMAIN res THEN res[id] ELSE ""

\* the merge that lists the sections from the last item to the first
MergeReversed(items, res) ==
    IF Len(items) = 1
    THEN [kind |-> "raw", body |-> ResultOf(res, items[1].id), sections |-> <<>>]
    ELSE [kind |-> "sections", body |-> "",
          sections |-> [i \in 1..Len(items) |->
                           [header |-> items[Len(items) + 1 - i].id,
                            output |-> Rstrip(ResultOf(res, items[Len(items) + 1 - i].id))]]]

\* the merge that writes a header section for a single item too
MergeWithHeaders(items, res) ==
    [kind |-> "sections", body |-> "",
     sections |-> [i \in 1..Len(items) |->
                      [header |-> items[i].id,
                       output |-> Rstrip(ResultOf(res, items[i].id))]]]

\* _merge_results_deterministically, lines 221-231
MergeResultsDeterministically(items, res) ==
    IF Len(items) = 1
    THEN [kind |-> "raw", body |-> ResultOf(res, items[1].id), sections |-> <<>>]
    ELSE [kind |-> "sections", body |-> "",
          sections |-> [i \in 1..Len(items) |->
                           [header |-> items[i].id,
                            output |-> Rstrip(ResultOf(res, items[i].id))]]]

(***************************************************************************)
(* Orchestrator.run_work_items, lines 74-128                               *)
(***************************************************************************)
orchRest == <<pc, loopVars, execVars, envVars, planVars, turnVars, snapVars>>

\* lines 75-83
RunWorkItemsBegin ==
    /\ orch_pc = "run_work_items"
    /\ IF Len(work_items) > policy.max_work_items
       THEN /\ orch_fault' = [msg |-> "too_many_work_items", detail |-> {}]
            /\ orch_pc' = "raised"
            /\ UNCHANGED remaining
       ELSE /\ remaining' = [i \in 1..Len(work_items) |-> i]
            /\ orch_pc' = "loop"
            /\ UNCHANGED orch_fault
    /\ UNCHANGED <<work_items, policy, artifacts, results, ready_wave, tasks, task_out,
                   wave_fault, merged, executing, executed, user_input>>
    /\ UNCHANGED orchRest

\* lines 85-104 and 128: the loop test, the wave, the branch taken
NextWave ==
    /\ orch_pc = "loop"
    /\ LET wave == SelectReadyWorkItems(remaining, artifacts) IN
       \/ /\ remaining = <<>>
          /\ merged' = MergeResultsDeterministically(work_items, results)
          /\ orch_pc' = "returned"
          /\ UNCHANGED <<ready_wave, tasks, task_out, orch_fault>>
       \/ /\ remaining # <<>>
          /\ wave = <<>>
          /\ orch_fault' = StuckFault(remaining, artifacts)
          /\ orch_pc' = "raised"
          /\ UNCHANGED <<ready_wave, tasks, task_out, merged>>
       \/ /\ wave # <<>>
          /\ ~policy.enable_parallel \/ Len(wave) = 1
          /\ ready_wave' = wave
          /\ orch_pc' = "sequential"
          /\ UNCHANGED <<tasks, task_out, orch_fault, merged>>
       \/ /\ wave # <<>>
          /\ policy.enable_parallel /\ Len(wave) > 1
          /\ ready_wave' = wave
          /\ tasks' = [k \in 1..Len(wave) |-> "pending"]
          /\ task_out' = [k \in 1..Len(wave) |-> ""]
          /\ orch_pc' = "parallel"
          /\ UNCHANGED <<orch_fault, merged>>
    /\ UNCHANGED <<work_items, policy, remaining, artifacts, results, wave_fault,
                   executing, executed, user_input>>
    /\ UNCHANGED orchRest

\* lines 105-111 and 125-126: the first item of the wave, run in place
RunOneSync ==
    /\ orch_pc = "sequential"
    /\ LET i == ready_wave[1]
           snap == SelectedFor(i, artifacts)
           recorded(out) == RecordOutput(i, out, [ok |-> TRUE, artifacts |-> artifacts,
                                                  results |-> results])
       IN IF ~snap.ok
          THEN \* snapshot_selected raises KeyError before the unit is called
               /\ orch_fault' = [msg |-> "snapshot_missing", detail |-> {}]
               /\ orch_pc' = "raised"
               /\ UNCHANGED <<artifacts, results, remaining, executed, user_input>>
          ELSE /\ executed' = [executed EXCEPT ![i] = @ + 1]
               /\ user_input' = [user_input EXCEPT ![i] = ComposeUserInput(i, snap.selected)]
               /\ \/ \E out \in Outputs :
                        IF recorded(out).ok
                        THEN /\ artifacts' = recorded(out).artifacts
                             /\ results' = recorded(out).results
                             /\ remaining' = AfterWave(remaining, ready_wave)
                             /\ orch_pc' = "loop"
                             /\ UNCHANGED orch_fault
                        ELSE /\ orch_fault' = [msg |-> "artifact_exists", detail |-> {}]
                             /\ orch_pc' = "raised"
                             /\ UNCHANGED <<artifacts, results, remaining>>
                  \/ /\ orch_fault' = [msg |-> "unit_raised", detail |-> {}]
                     /\ orch_pc' = "raised"
                     /\ UNCHANGED <<artifacts, results, remaining>>
    /\ UNCHANGED <<work_items, policy, ready_wave, tasks, task_out, wave_fault, merged,
                   executing>>
    /\ UNCHANGED orchRest

(***************************************************************************)
(* _run_wave_parallel / _run_one_async, lines 169-207                      *)
(***************************************************************************)
Wave == 1..Len(tasks)
\* the semaphore a timed-out task never gives back
HoldingAfterTimeout == {k \in Wave : tasks[k] \in {"running", "timed_out"}}

\* the tasks inside `async with sem`
Holding == {k \in Wave : tasks[k] = "running"}
Pending == {k \in Wave : tasks[k] = "pending"}
\* a task waits for the semaphore and a slot is free
CanAcquire == Pending # {} /\ Cardinality(Holding) < policy.max_concurrency

waveRest == <<orch_pc, work_items, policy, remaining, artifacts, results, ready_wave,
              orch_fault, merged>>

\* `async with sem` entered, asyncio.to_thread started: the longest-waiting task
AcquireSlot ==
    /\ orch_pc = "parallel"
    /\ CanAcquire
    /\ LET k == CHOOSE x \in Pending : \A y \in Pending : x <= y
           snap == SelectedFor(ready_wave[k], artifacts)
       IN IF ~snap.ok
          THEN \* snapshot_selected raises KeyError: the task ends, slot released
               /\ tasks' = [tasks EXCEPT ![k] = "failed"]
               /\ wave_fault' = IF wave_fault = "none" THEN "snapshot_missing"
                                ELSE wave_fault
               /\ UNCHANGED <<executing, executed, user_input>>
          ELSE /\ tasks' = [tasks EXCEPT ![k] = "running"]
               /\ executing' = executing \cup {k}
               /\ executed' = [executed EXCEPT ![ready_wave[k]] = @ + 1]
               /\ user_input' = [user_input EXCEPT ![ready_wave[k]] =
                                    ComposeUserInput(ready_wave[k], snap.selected)]
               /\ UNCHANGED wave_fault
    /\ UNCHANGED task_out
    /\ UNCHANGED waveRest
    /\ UNCHANGED orchRest

\* the task that records its artifact as soon as its unit returns, while the
\* other units of the wave may still be running
UnitReturnsAndRecords(k) ==
    /\ orch_pc = "parallel"
    /\ ~CanAcquire
    /\ wave_fault = "none"
    /\ tasks[k] = "running"
    /\ \E out \in Outputs :
          /\ task_out' = [task_out EXCEPT ![k] = out]
          /\ artifacts' = MapPut(artifacts, KeyOf(Item(ready_wave[k]).id),
                                 [value |-> out, producer |-> Item(ready_wave[k]).id])
    /\ tasks' = [tasks EXCEPT ![k] = "done"]
    /\ executing' = executing \ {k}
    /\ UNCHANGED <<wave_fault, executed, user_input>>
    /\ UNCHANGED <<orch_pc, work_items, policy, remaining, results, ready_wave,
                   orch_fault, merged>>
    /\ UNCHANGED orchRest

\* the role unit returns within the timeout; the slot is released
UnitReturns(k) ==
    /\ orch_pc = "parallel"
    /\ ~CanAcquire
    /\ wave_fault = "none"
    /\ tasks[k] = "running"
    /\ \E out \in Outputs : task_out' = [task_out EXCEPT ![k] = out]
    /\ tasks' = [tasks EXCEPT ![k] = "done"]
    /\ executing' = executing \ {k}
    /\ UNCHANGED <<wave_fault, executed, user_input>>
    /\ UNCHANGED waveRest
    /\ UNCHANGED orchRest

\* the role unit raises; the task ends with that exception, the slot is released
UnitRaises(k) ==
    /\ orch_pc = "parallel"
    /\ ~CanAcquire
    /\ wave_fault = "none"
    /\ tasks[k] = "running"
    /\ tasks' = [tasks EXCEPT ![k] = "failed"]
    /\ executing' = executing \ {k}
    /\ wave_fault' = "unit_raised"
    /\ UNCHANGED <<task_out, executed, user_input>>
    /\ UNCHANGED waveRest
    /\ UNCHANGED orchRest

\* asyncio.wait_for gives up: the task ends with TimeoutError and the slot is
\* released, but the thread started by to_thread runs on
UnitTimesOut(k) ==
    /\ orch_pc = "parallel"
    /\ ~CanAcquire
    /\ wave_fault = "none"
    /\ tasks[k] = "running"
    /\ tasks' = [tasks EXCEPT ![k] = "timed_out"]
    /\ wave_fault' = "timeout"
    /\ UNCHANGED <<task_out, executing, executed, user_input>>
    /\ UNCHANGED waveRest
    /\ UNCHANGED orchRest

\* asyncio.gather (line 204) hands the first exception to _runner and
\* asyncio.run cancels the tasks that have not ended
WaveAbort ==
    /\ orch_pc = "parallel"
    /\ ~CanAcquire
    /\ wave_fault # "none"
    /\ tasks' = [k \in Wave |-> IF tasks[k] \in {"pending", "running"}
                                THEN "cancelled" ELSE tasks[k]]
    /\ orch_pc' = "aborting"
    /\ UNCHANGED <<work_items, policy, remaining, artifacts, results, ready_wave,
                   orch_fault, merged, task_out, wave_fault, executing, executed,
                   user_input>>
    /\ UNCHANGED orchRest

\* the thread of a task that timed out or was cancelled comes to its end
ThreadEnds(k) ==
    /\ orch_pc = "aborting"
    /\ k \in executing
    /\ executing' = executing \ {k}
    /\ UNCHANGED <<tasks, task_out, wave_fault, executed, user_input>>
    /\ UNCHANGED waveRest
    /\ UNCHANGED orchRest

\* asyncio.run (line 207) has shut the executor down and raises
WaveRaises ==
    /\ orch_pc = "aborting"
    /\ executing = {}
    /\ orch_fault' = [msg |-> wave_fault, detail |-> {}]
    /\ orch_pc' = "raised"
    /\ UNCHANGED <<work_items, policy, remaining, artifacts, results, ready_wave, merged,
                   tasks, task_out, wave_fault, executing, executed,
                   user_input>>
    /\ UNCHANGED orchRest

\* gather returns; lines 121-126 record every output of the wave
WaveCompletes ==
    /\ orch_pc = "parallel"
    /\ \A k \in Wave : tasks[k] = "done"
    /\ LET st == RecordWave(ready_wave, OutsById(ready_wave, task_out),
                            [ok |-> TRUE, artifacts |-> artifacts, results |-> results])
       IN /\ artifacts' = st.artifacts
          /\ results' = st.results
          /\ IF st.ok
             THEN /\ remaining' = AfterWave(remaining, ready_wave)
                  /\ orch_pc' = "loop"
                  /\ UNCHANGED orch_fault
             ELSE /\ orch_fault' = [msg |-> "artifact_exists", detail |-> {}]
                  /\ orch_pc' = "raised"
                  /\ UNCHANGED remaining
    /\ UNCHANGED <<work_items, policy, ready_wave, tasks, task_out, wave_fault, merged,
                   executing, executed, user_input>>
    /\ UNCHANGED orchRest

\* the orchestrator before run_work_items is called
OrchLocals ==
    /\ remaining = <<>>
    /\ artifacts = NoArtifacts
    /\ results = NoResults
    /\ ready_wave = <<>>
    /\ tasks = <<>>
    /\ task_out = <<>>
    /\ wave_fault = "none"
    /\ orch_fault = NoOrchFault
    /\ merged = NoMerged
    /\ executing = {}

OrchIdle ==
    /\ orch_pc = "idle"
    /\ work_items = <<>>
    /\ policy = [max_work_items |-> DefaultMaxWorkItems, max_concurrency |-> 1,
                 enable_parallel |-> FALSE]
    /\ executed = <<>>
    /\ user_input = <<>>
    /\ OrchLocals

(***************************************************************************)
(* Agent.run: one turn (plan, execute, compose)                            *)
(***************************************************************************)
\* the shapes of a request: "return exactly ...: X", "output exactly: X",
\* anything else
ExactShapes == {"return exactly", "output exactly"}
Shapes == ExactShapes \cup {"other"}
Literals == {"OK", "A", "B"}
TurnInputs == [shape : Shapes, literal : Literals]

NoLiteral == "(no literal)"

\* the extraction that gives back the words of the request, not X alone
EchoRequest(input) ==
    IF input.shape \in ExactShapes THEN input.shape \o ": " \o input.literal
    ELSE NoLiteral

\* the X of a request of the shape "return/output exactly: X"
ExactLiteral(input) ==
    IF input.shape \in ExactShapes THEN input.literal ELSE NoLiteral

\* the plans the plan source answers the turn with
TurnPlans ==
    {ToPlan(DeterministicReplanPlan),
     ToPlan(<<JsonStep("a", "get_time", "object", <<>>, FALSE),
              JsonStep(ComposeId, NoTool, NoArgs, <<"a">>, FALSE)>>),
     ToPlan(<<JsonStep("a", "get_time", "object", <<>>, FALSE),
              JsonStep("step_1", "fetch_url", "object", <<"a">>, FALSE),
              JsonStep(ComposeId, NoTool, NoArgs, <<"a", "step_1">>, FALSE)>>)}

\* what the backend answers the compose prompt with
BackendAnswers == {"text-1", "text-2"}
FallbackAnswer == "(fallback answer)"
NoAnswer == "(none)"

\* no tools were needed: the plan has the compose step only
NoToolsNeeded(plan) ==
    \A i \in 1..Len(plan) : plan[i].tool = NoTool

turnRest == <<pc, loopVars, execVars, envVars, planVars, orchVars, snapVars>>

\* the plan source gives the plan of the turn
TurnGeneratePlan ==
    /\ turn_pc = "generate_plan"
    /\ turn_plan' \in TurnPlans
    /\ turn_pc' = "execute"
    /\ UNCHANGED <<turn_input, turn_failed, turn_answer, turn_llm_calls>>
    /\ UNCHANGED turnRest

\* the tool steps are executed (with replanning); with no tool step there
\* is nothing to fail
TurnExecute ==
    /\ turn_pc = "execute"
    /\ turn_failed' \in IF NoToolsNeeded(turn_plan) THEN {FALSE} ELSE BOOLEAN
    /\ turn_pc' = "compose"
    /\ UNCHANGED <<turn_input, turn_plan, turn_answer, turn_llm_calls>>
    /\ UNCHANGED turnRest

\* the Answer Composer: the literal without the backend when the request
\* asked for one and no tools were needed; else one backend call, whose
\* failure degrades to the fixed fallback answer
ComposeAnswer ==
    /\ turn_pc = "compose"
    /\ \/ /\ ExactLiteral(turn_input) # NoLiteral
          /\ NoToolsNeeded(turn_plan)
          /\ turn_answer' = ExactLiteral(turn_input)
          /\ UNCHANGED turn_llm_calls
       \/ /\ ~(ExactLiteral(turn_input) # NoLiteral /\ NoToolsNeeded(turn_plan))
          /\ turn_answer' \in BackendAnswers
          /\ turn_llm_calls' = turn_llm_calls + 1
       \/ /\ ~(ExactLiteral(turn_input) # NoLiteral /\ NoToolsNeeded(turn_plan))
          /\ turn_answer' = FallbackAnswer
          /\ turn_llm_calls' = turn_llm_calls + 1
    /\ turn_pc' = "returned"
    /\ UNCHANGED <<turn_input, turn_plan, turn_failed>>
    /\ UNCHANGED turnRest

\* the turn before run is called
TurnLocals ==
    /\ turn_plan = NoPlan
    /\ turn_failed = FALSE
    /\ turn_answer = NoAnswer
    /\ turn_llm_calls = 0

TurnIdle ==
    /\ turn_pc = "idle"
    /\ turn_input = [shape |-> "other", literal |-> "OK"]
    /\ TurnLocals

(***************************************************************************)
(* RunContext.snapshot_selected (context.py 43-52) called on its own       *)
(***************************************************************************)
\* the keys a caller may name
SnapshotKeys == {"w1.output", "w2.output", StrayKey}

\* the RunContexts the call is made on: any artifacts under their own keys
ArtifactMaps ==
    UNION {[ks -> [value : Outputs, producer : {"w1", "w2"}]] :
              ks \in SUBSET {"w1.output", "w2.output"}}

NoSnapshot == [raised |-> FALSE, missing |-> {}, view |-> NoArtifacts]

\* lines 44-52: `missing`, the KeyError or the view
SnapshotSelectedCall ==
    /\ snap_pc = "snapshot_selected"
    /\ LET snap == SnapshotSelected(snap_keys, artifacts)
           missing == {k \in snap_keys : k \notin DOMAIN artifacts}
       IN IF snap.ok
          THEN /\ snap_result' = [raised |-> FALSE, missing |-> {},
                                  view |-> snap.selected]
               /\ snap_pc' = "returned"
          ELSE /\ snap_result' = [raised |-> TRUE, missing |-> missing,
                                  view |-> NoArtifacts]
               /\ snap_pc' = "raised"
    /\ UNCHANGED <<snap_keys, orchVars>>
    /\ UNCHANGED <<pc, loopVars, execVars, envVars, planVars, turnVars>>

\* snapshot_selected is not being called
SnapIdle ==
    /\ snap_pc = "idle"
    /\ snap_keys = {}
    /\ snap_result = NoSnapshot

(***************************************************************************)
(* Specifications                                                          *)
(***************************************************************************)
ExecState(start, plans, maps, ceilings) ==
    /\ pc = start
    /\ max_steps \in ceilings
    /\ current_plan \in plans
    /\ observations \in maps
    /\ tool_calls = <<>>
    /\ replans_used = 0
    /\ forbidden_tools = {}
    /\ last_failure_text = NoText
    /\ raised = NoRaise
    /\ exec_plan = <<>>
    /\ exec_obs = EmptyMap
    /\ exec_alias = FALSE
    /\ exec_calls = <<>>
    /\ ordered = <<>>
    /\ fault = NoFault
    /\ invocations = 0
    /\ attempts = 0
    /\ requests = 0
    /\ last_request = NoRequest
    /\ done_before = {}
    /\ rerun = FALSE
    /\ hard_failed = {}
    /\ input_plan = <<>>
    /\ input_obs = EmptyMap

\* the executor before it is called
ExecIdle ==
    /\ max_replans = 0
    /\ ExecState("idle", {<<>>}, {EmptyMap}, {DefaultMaxSteps})

\* execute_with_replanning(initial_plan, planner): lines 113-119
Init ==
    /\ max_replans \in 0..MaxReplansBound
    /\ ExecState("execute_plan", LoopPlans, {EmptyMap}, {DefaultMaxSteps})
    /\ PlanIdle
    /\ OrchIdle
    /\ TurnIdle
    /\ SnapIdle

\* SkipStep is no disjunct here: execute_with_replanning hands execute_plan
\* an empty map on every attempt (line 113; line 128 is followed by the
\* return), and `ordered` holds each id once, so the test of line 75 is
\* never true within it (SkipNeverEnabled)
Next ==
    \/ ExecutePlanBegin
    \/ RunToolStep
    \/ ExecutePlanReturn
    \/ ReturnResult
    \/ HandleSoftFailure
    \/ HandleHardFailure

Spec == Init /\ [][Next]_vars

\* execute_plan(plan, observations=...) called on its own
InitExec ==
    /\ max_replans = 0
    /\ ExecState("execute_plan", ExecPlans(MaxPlanLen), CarriedMaps,
                 {LowMaxSteps, DefaultMaxSteps})
    /\ PlanIdle
    /\ OrchIdle
    /\ TurnIdle
    /\ SnapIdle

NextExec ==
    \/ ExecutePlanBegin
    \/ SkipStep
    \/ RunToolStep
    \/ ExecutePlanReturn

SpecExec == InitExec /\ [][NextExec]_vars

\* generate_plan(user_input, is_replan=..., forbidden_tools=...)
InitPlan ==
    /\ gp_pc = "generate_plan"
    /\ is_replan \in BOOLEAN
    /\ plan_forbidden \in ForbiddenSets
    /\ memory_request \in BOOLEAN
    /\ PlanLocals
    /\ ExecIdle
    /\ OrchIdle
    /\ TurnIdle
    /\ SnapIdle

NextPlan ==
    \/ GeneratePlanCall
    \/ ParseOrRepairJson

SpecPlan == InitPlan /\ [][NextPlan]_vars

\* run_work_items(work_items) under a policy
InitOrch ==
    /\ orch_pc = "run_work_items"
    /\ work_items \in ItemLists(MaxItems) \cup FanOutLists \cup TemplateLists
    /\ policy \in Policies
    /\ executed = [i \in 1..Len(work_items) |-> 0]
    /\ user_input = [i \in 1..Len(work_items) |-> NoInput]
    /\ OrchLocals
    /\ ExecIdle
    /\ PlanIdle
    /\ TurnIdle
    /\ SnapIdle

NextOrch ==
    \/ RunWorkItemsBegin
    \/ NextWave
    \/ RunOneSync
    \/ AcquireSlot
    \/ \E k \in Wave : UnitReturns(k)
    \/ \E k \in Wave : UnitRaises(k)
    \/ \E k \in Wave : UnitTimesOut(k)
    \/ WaveAbort
    \/ \E k \in Wave : ThreadEnds(k)
    \/ WaveRaises
    \/ WaveCompletes

SpecOrch == InitOrch /\ [][NextOrch]_vars

\* run_work_items under the event loop of asyncio.run (line 207), which runs
\* every callback that is ready: the run does not stop while a step is
\* possible
SpecOrchFair == SpecOrch /\ WF_vars(NextOrch)

\* Agent.run(user_input)
InitTurn ==
    /\ turn_pc = "generate_plan"
    /\ turn_input \in TurnInputs
    /\ TurnLocals
    /\ ExecIdle
    /\ PlanIdle
    /\ OrchIdle
    /\ SnapIdle

NextTurn ==
    \/ TurnGeneratePlan
    \/ TurnExecute
    \/ ComposeAnswer

SpecTurn == InitTurn /\ [][NextTurn]_vars

\* run_context.snapshot_selected(keys) on a RunContext that holds artifacts
InitSnap ==
    /\ snap_pc = "snapshot_selected"
    /\ snap_keys \in SUBSET SnapshotKeys
    /\ snap_result = NoSnapshot
    /\ orch_pc = "idle"
    /\ work_items = <<>>
    /\ policy = [max_work_items |-> DefaultMaxWorkItems, max_concurrency |-> 1,
                 enable_parallel |-> FALSE]
    /\ executed = <<>>
    /\ user_input = <<>>
    /\ remaining = <<>>
    /\ artifacts \in ArtifactMaps
    /\ results = NoResults
    /\ ready_wave = <<>>
    /\ tasks = <<>>
    /\ task_out = <<>>
    /\ wave_fault = "none"
    /\ orch_fault = NoOrchFault
    /\ merged = NoMerged
    /\ executing = {}
    /\ ExecIdle
    /\ PlanIdle
    /\ TurnIdle

NextSnap == SnapshotSelectedCall

SpecSnap == InitSnap /\ [][NextSnap]_vars

(***************************************************************************)
(* Claims about execute_with_replanning (Spec)                             *)
(***************************************************************************)
C1_Budget ==
    /\ requests <= max_replans
    /\ attempts <= max_replans + 1
    /\ replans_used <= max_replans + 1
    /\ raised.msg = "exceeded_max_replans" =>
          /\ replans_used = max_replans + 1
          /\ raised.last_failure = last_failure_text
          /\ last_failure_text # NoText

\* the failure being handled is the one the terminal fault describes
C1_TerminalFault ==
    (pc = "exec_raised" /\ BudgetExhausted(replans_used + 1)) =>
        /\ pc' = "failed"
        /\ requests' = requests
        /\ raised'.msg = "exceeded_max_replans"
        /\ raised'.last_failure.exc.msg = fault.msg
        /\ raised'.last_failure.exc.step_id = fault.step_id
        /\ raised'.last_failure.exc.tool_name = fault.tool_name

\* C1: execute_with_replanning issues at most max_replans replan requests
\* and makes at most max_replans + 1 execution attempts, whatever fails and
\* however often; the failure that exceeds the budget ends the run with the
\* max-replans fault, which embeds the description of that failure.
C1_BoundedReplanning == []C1_Budget /\ [][C1_TerminalFault]_vars

\* every failure was a retryable soft failure, and the budget still ran out
C1_Witness ==
    /\ raised.msg = "exceeded_max_replans"
    /\ max_replans = 2
    /\ requests = 2
    /\ attempts = 3
    /\ last_failure_text.kind = "soft"
    /\ forbidden_tools = {}
    /\ hard_failed = {}

\* the guard of SkipStep is false in every state of execute_with_replanning
SkipNeverEnabled ==
    (pc = "exec_loop" /\ ordered # <<>>) => Head(ordered).id \notin DOMAIN exec_obs

\* C2: the forbidden set of every replan request issued after a tool call
\* raised contains that tool's name.
C2_HardFailureForbidsTool ==
    (pc = "execute_plan" /\ requests > 0) =>
        hard_failed \subseteq last_request.forbidden_tools

\* C3: a step whose tool call succeeded in an earlier attempt is not called
\* again when its id reappears, and the observations handed to the plan
\* source hold the results collected before the failure.
C3_ObservationsCarried ==
    /\ ~rerun
    /\ (pc = "execute_plan" /\ requests > 0) =>
          \A id \in done_before :
              \E i \in 1..Len(last_request.observations_text) :
                  last_request.observations_text[i][1] = id

\* C6: a dependency cycle or an unregistered tool ends the run at once: no
\* replan request is issued for it.
C6_StructuralFaultsNotRetried ==
    [][(pc = "exec_raised" /\ fault.msg \in {"dependency_cycle", "unknown_tool"}) =>
          (pc' = "failed" /\ requests' = requests)]_vars

\* a soft failure is being handled
HandlingSoftFailure == pc = "exec_raised" /\ fault.type = "SoftToolFailure"

\* the payload's retryable field decides alone whether the tool is forbidden
RetryableDecides ==
    HandlingSoftFailure =>
        /\ fault.payload.retryable \in {"absent", "false"} =>
              /\ fault.tool_name \in forbidden_tools'
              /\ forbidden_tools' = forbidden_tools \cup {fault.tool_name}
        /\ fault.payload.retryable = "true" => forbidden_tools' = forbidden_tools

\* C21: on a soft failure the tool's name enters the forbidden set if and
\* only if the payload does not mark itself retryable (retryable absent or
\* false forbids the tool, retryable true leaves the set as it was).
C21_SoftFailureForbidsUnlessRetryable == [][RetryableDecides]_vars

\* get_time failed softly and was forbidden; then fetch_url failed softly
\* with retryable true and the set stayed as it was
C21_Witness ==
    /\ replans_used = 2
    /\ last_failure_text.kind = "soft"
    /\ last_failure_text.exc.tool_name = "fetch_url"
    /\ forbidden_tools = {"get_time"}
    /\ hard_failed = {}

\* the set never loses a tool, and a replan request carries the current set
ForbiddenSetGrows ==
    /\ forbidden_tools \subseteq forbidden_tools'
    /\ requests' > requests =>
          /\ last_request'.forbidden_tools = forbidden_tools'
          /\ last_request.forbidden_tools \subseteq last_request'.forbidden_tools

\* C22: within one run the forbidden set only grows: the set of each replan
\* request contains the set of every earlier request.
C22_ForbiddenSetMonotonic == [][ForbiddenSetGrows]_vars

\* the second request forbids what the first one forbade, and one tool more,
\* and a hard failure was handled in between or after
C22_Witness ==
    /\ requests = 2
    /\ last_request.forbidden_tools = {"get_time", "fetch_url"}
    /\ last_failure_text.kind = "hard"

\* the replan request that brought no plan back
ReplanRaised == requests' = requests + 1 /\ pc' = "failed"

\* the fault of the plan source leaves as it is, in the step of the request
FaultLeavesAsIs ==
    ReplanRaised =>
        /\ raised' = PlanSourceFault
        /\ raised'.msg # "exceeded_max_replans"
        /\ ~BudgetExhausted(replans_used')
        /\ invocations' = invocations
        /\ attempts' = attempts

\* nothing follows a fault that left execute_with_replanning
NothingAfterFault ==
    raised # NoRaise =>
        /\ pc = "failed"
        /\ UNCHANGED <<requests, invocations, attempts, raised>>

\* C39: a fault raised by the plan source while it is asked for a replan
\* leaves execute_with_replanning at once and as it is: no further replan
\* request, no tool call, no conversion into the max-replans fault.
C39_PlanSourceFaultPropagates ==
    /\ [](raised = PlanSourceFault => pc = "failed" /\ requests > 0)
    /\ [][FaultLeavesAsIs /\ NothingAfterFault]_vars

\* the plan source raised on the first replan request, after a tool call
C39_Witness ==
    /\ raised = PlanSourceFault
    /\ pc = "failed"
    /\ requests = 1
    /\ invocations > 0
    /\ replans_used <= max_replans

\* the plan source answered one replan request and raised on the next
C39_WitnessSecondRequest ==
    /\ raised = PlanSourceFault
    /\ requests = 2
    /\ attempts = 2


(***************************************************************************)
(* Claims about execute_plan (SpecExec)                                    *)
(***************************************************************************)
\* the requires graph of the tool steps of a plan with distinct ids
ToolIds(steps) == {st.id : st \in Range(ToolSteps(steps))}
RequiresEdges(steps) ==
    {e \in ToolIds(steps) \X ToolIds(steps) :
        \E st \in Range(ToolSteps(steps)) : st.id = e[1] /\ e[2] \in st.requires}
\* acyclic: the ids can be ranked so that every step ranks above what it requires
Acyclic(steps) ==
    \E rank \in [ToolIds(steps) -> 1..Cardinality(ToolIds(steps))] :
        \A e \in RequiresEdges(steps) : rank[e[2]] < rank[e[1]]

\* `seq` lists every tool step of `steps` once, each after the tool steps it
\* requires, and each the smallest id among those ready at its turn
SmallestReadyFirst(seq, steps) ==
    LET T == ToolSteps(steps)
        Before(k) == {seq[i] : i \in 1..(k - 1)}
        Ready(k) == {st.id : st \in {x \in Range(T) :
                        /\ x.id \notin Before(k)
                        /\ (x.requires \cap ToolIds(steps)) \subseteq Before(k)}}
    IN /\ Len(seq) = Len(T)
       /\ Range(seq) = ToolIds(steps)
       /\ \A k \in 1..Len(seq) :
             /\ seq[k] \in Ready(k)
             /\ \A other \in Ready(k) : other = seq[k] \/ IdLess(seq[k], other)

\* C9: for an acyclic plan execute_plan runs the tool steps, each after the
\* tool steps it requires, the smallest ready id first.
C9_TopologicalOrder ==
    (attempts > 0 /\ Acyclic(input_plan)) =>
        /\ fault.msg # "dependency_cycle"
        /\ (pc = "exec_returned" /\ input_obs = EmptyMap) =>
              SmallestReadyFirst(exec_calls, NormalizePlanIds(input_plan).steps)

\* C10: for a plan with a cycle execute_plan raises the dependency-cycle fault
\* (the step ceiling is tested first) without calling a tool or touching the
\* observation map.
C10_CycleRaisesBeforeAnyTool ==
    (attempts > 0 /\ ~Acyclic(input_plan)) =>
        /\ pc = "exec_raised"
        /\ fault.msg \in {"dependency_cycle", "too_many_tool_steps"}
        /\ Len(ToolSteps(input_plan)) <= max_steps => fault.msg = "dependency_cycle"
        /\ invocations = 0
        /\ observations = input_obs

\* no name that _normalize_plan_ids makes up is already an id or a
\* requires entry of the plan
NoIdCollision(steps) ==
    \A i, j \in 1..Len(steps) :
        IsDigit(steps[i].id) =>
            /\ StepName(steps[i].id) # steps[j].id
            /\ StepName(steps[i].id) \notin steps[j].requires

\* outside such collisions the two statements about execute_plan hold
OrderHoldsWithoutCollision == NoIdCollision(input_plan) => C9_TopologicalOrder
CycleFaultHoldsWithoutCollision == NoIdCollision(input_plan) => C10_CycleRaisesBeforeAnyTool

\* how many steps of the plan handed to execute_plan have a tool
ToolStepCount ==
    Cardinality({i \in 1..Len(input_plan) :
                    input_plan[i].tool # NoTool /\ input_plan[i].id # ComposeId})

\* C26: a plan with more tool steps than max_steps is rejected by
\* execute_plan before any tool is invoked.
C26_CeilingRejectsBeforeAnyTool ==
    ToolStepCount > max_steps =>
        /\ invocations = 0
        /\ exec_calls = <<>>
        /\ pc \in {"execute_plan", "exec_raised"}
        /\ pc = "exec_raised" => fault = TooManySteps

\* two tool steps under a ceiling of one: rejected
C26_Witness ==
    /\ pc = "exec_raised"
    /\ fault = TooManySteps
    /\ ToolStepCount = 2
    /\ max_steps = LowMaxSteps
    /\ invocations = 0

\* the ids of the steps of a plan are pairwise distinct
DistinctIds(steps) ==
    \A i, j \in 1..Len(steps) : i # j => steps[i].id # steps[j].id

\* C38: numeric-id normalisation never merges steps: ids that are pairwise
\* distinct before it are pairwise distinct after it.
C38_NormalizationKeepsIdsDistinct ==
    (attempts > 0 /\ DistinctIds(input_plan)) => DistinctIds(exec_plan)

\* without a made-up name that is already in the plan the ids stay distinct
IdsDistinctWithoutCollision ==
    (attempts > 0 /\ DistinctIds(input_plan) /\ NoIdCollision(input_plan)) =>
        DistinctIds(exec_plan)

\* the id that the mapping of the plan handed to execute_plan gives `x`
Renamed(x) == MapGet(IdMap(input_plan), x)

\* C35: numeric-id normalisation preserves the dependency relation: a
\* numeric id n becomes step_(n+1), the other ids stay, step a requires step
\* b before it if and only if the renamed a requires the renamed b after
\* it, and the keys of the observation map carried in are renamed by the
\* same mapping.
C35_NormalizationKeepsDependencies ==
    attempts > 0 =>
        /\ Len(exec_plan) = Len(input_plan)
        /\ \A i \in 1..Len(input_plan) :
              exec_plan[i].id = IF IsDigit(input_plan[i].id)
                                THEN StepName(input_plan[i].id)
                                ELSE input_plan[i].id
        /\ \A i, j \in 1..Len(input_plan) :
              input_plan[j].id \in input_plan[i].requires
                  <=> exec_plan[j].id \in exec_plan[i].requires
        /\ invocations = 0 => DOMAIN exec_obs = {Renamed(k) : k \in DOMAIN input_obs}

\* without a made-up name that is already in the plan the relation is kept
DependenciesKeptWithoutCollision ==
    NoIdCollision(input_plan) => C35_NormalizationKeepsDependencies

\* a plan with the numeric id "0", required by another step, was renamed
RenamedAndRequired ==
    /\ attempts > 0
    /\ NoIdCollision(input_plan)
    /\ \E i, j \in 1..Len(input_plan) :
          /\ input_plan[i].id = "0"
          /\ input_plan[j].id = "a"
          /\ "0" \in input_plan[j].requires
          /\ exec_plan[i].id = "step_1"
          /\ "step_1" \in exec_plan[j].requires

\* C37: when a tool call raises, the fault that leaves execute_plan carries
\* the id of the failing step and the name of the failing tool.
C37_HardFaultNamesStepAndTool ==
    hard_failed # {} =>
        /\ pc = "exec_raised"
        /\ fault.step_id = Head(ordered).id
        /\ fault.tool_name = Head(ordered).tool
        /\ fault.tool_name \in hard_failed

\* a fault of the executor's own does name them: the unregistered tool
UnknownToolFaultNamesStepAndTool ==
    (pc = "exec_raised" /\ fault.msg = "unknown_tool") =>
        /\ fault.step_id = Head(ordered).id
        /\ fault.tool_name = Head(ordered).tool
        /\ fault.tool_name \notin TOOLS


(***************************************************************************)
(* Claims about Planner.generate_plan (SpecPlan)                           *)
(***************************************************************************)
CallsForbidden(steps, forbidden) ==
    \E i \in 1..Len(steps) : steps[i].tool \in forbidden

\* C5: a replan request with a non-empty forbidden set returns a plan with
\* no step whose tool is forbidden; when the backend's plan has such a step
\* the returned plan is the compose-only fallback, and no backend call is
\* made after that plan was parsed.
C5_ForbiddenToolsEnforced ==
    (gp_pc = "returned" /\ is_replan /\ plan_forbidden # {}) =>
        /\ ~CallsForbidden(returned_plan, plan_forbidden)
        /\ CallsForbidden(plan_json, plan_forbidden) =>
              /\ returned_plan = ToPlan(DeterministicReplanPlan)
              /\ llm_calls = calls_when_parsed
        /\ ~CallsForbidden(plan_json, plan_forbidden) =>
              returned_plan = ToPlan(plan_json)

\* after one repair round the backend's plan calls a forbidden tool and the
\* fallback is returned
C5_Witness ==
    /\ gp_pc = "returned"
    /\ is_replan
    /\ plan_forbidden = {"get_time", "fetch_url"}
    /\ \E i \in 1..Len(plan_json) : plan_json[i].tool = "fetch_url"
    /\ llm_calls = 2
    /\ returned_plan = ToPlan(DeterministicReplanPlan)

\* the normalised plan of the latest generate_plan call that parsed one
Normalised == plan_json # <<>>

\* C11: a normalised plan ends with its only compose_answer step, which has
\* no tool and no args and requires exactly the ids of the steps with a tool.
C11_ComposeInvariant ==
    Normalised =>
        LET n == Len(plan_json)
            last == plan_json[n]
        IN /\ last.id = ComposeId
           /\ \A i \in 1..(n - 1) : plan_json[i].id # ComposeId
           /\ last.tool = NoTool
           /\ last.args = NoArgs
           /\ Range(last.requires) = {plan_json[i].id : i \in {j \in 1..n : plan_json[j].tool # NoTool}}
           /\ ComposeId \notin Range(last.requires)
           /\ gp_pc = "returned" =>
                 /\ returned_plan[Len(returned_plan)].id = ComposeId
                 /\ returned_plan[Len(returned_plan)].tool = NoTool
                 /\ returned_plan[Len(returned_plan)].args = NoArgs
                 /\ ~violated => returned_plan = ToPlan(plan_json)

\* two tool steps: compose_answer requires both, which no backend answer
\* proposed for it
C11_Witness ==
    /\ gp_pc = "returned"
    /\ Len(plan_json) = 3
    /\ plan_json[1].tool = "get_time"
    /\ plan_json[2].tool = "fetch_url"
    /\ plan_json[3].requires = <<"a", "b">>

\* a normalised plan handed back to the normaliser as a plan object
AsRawSteps(steps) ==
    [i \in 1..Len(steps) |->
        RawStep(steps[i].id, steps[i].tool,
                IF steps[i].args = NoArgs THEN NoArgs ELSE steps[i].args,
                steps[i].requires)]

Renormalised(steps) == NormalisePlanJson(AsRawSteps(steps))

\* C12: normalising a normalised plan changes nothing, coerced steps included.
C12_NormalizationIdempotent ==
    Normalised =>
        /\ Renormalised(plan_json).ok
        /\ ToPlan(Renormalised(plan_json).steps) = ToPlan(plan_json)

\* without a coerced step the second pass changes nothing
IdempotentWithoutCoerced ==
    (Normalised /\ \A i \in 1..Len(plan_json) : ~plan_json[i].coerced) =>
        /\ Renormalised(plan_json).ok
        /\ ToPlan(Renormalised(plan_json).steps) = ToPlan(plan_json)

\* positions of the raw steps that name a tool outside the registry
UnknownToolAt(steps) ==
    {i \in 1..Len(steps) : steps[i].dict /\ steps[i].tool \notin TOOLS \cup {NoTool}}

\* some raw step with a registered tool carries a "$ref" placeholder
HasPlaceholder(steps) ==
    \E i \in 1..Len(steps) : steps[i].dict /\ steps[i].tool \in TOOLS /\ steps[i].args = "ref"

\* the backend's text is a plan object with an invented tool, about to be parsed
ParsingUnknownTool ==
    gp_pc = "parse" /\ text.kind = "plan" /\ UnknownToolAt(text.steps) # {}

\* ids of the steps of `steps` that satisfy Keep, in list order
IdsWhere(steps, Keep(_)) ==
    LET kept == SelectSeq(steps, Keep) IN [i \in 1..Len(kept) |-> kept[i].id]

\* the invented-tool steps not named compose_answer are all in the plan,
\* flagged, in their order, with tool and args absent
KeptAbsent(raw_steps, plan) ==
    /\ IdsWhere(plan, LAMBDA st : st.coerced /\ st.id # ComposeId)
         = IdsWhere(raw_steps, LAMBDA st : /\ st.dict
                                           /\ st.tool \notin TOOLS \cup {NoTool}
                                           /\ st.id # ComposeId)
    /\ \A j \in 1..Len(plan) : plan[j].coerced => plan[j].tool = NoTool /\ plan[j].args = NoArgs

\* the Plan of generate_plan as execute_plan reads it
AsExecPlan(plan) ==
    [i \in 1..Len(plan) |-> PlanStep(plan[i].id, plan[i].tool, Range(plan[i].requires))]

\* the steps execute_plan can invoke a tool for (planner_executor.py line 66)
Invocable(plan) == ToolSteps(NormalizePlanIds(AsExecPlan(plan)).steps)

\* the plan the planner returns is the normalised one
ReturnedNormalised == gp_pc = "returned" /\ Normalised /\ ~violated

OrderedHoldsToolSteps == \A i \in 1..Len(ordered) : ordered[i].tool # NoTool

FallbackPlan == AsExecPlan(ToPlan(DeterministicReplanPlan))

\* a replan has answered with the fallback plan and the attempt on it is
\* not over
FallbackAttempt ==
    /\ requests > 0
    /\ current_plan = FallbackPlan
    /\ pc \in {"execute_plan", "exec_loop", "exec_returned"}

\* how far an attempt has come
Progress(at) ==
    CASE at = "execute_plan" -> 1
      [] at = "exec_loop" -> 2
      [] at = "exec_returned" -> 3
      [] at = "done" -> 4
      [] OTHER -> 0

\* every step of the attempt on the fallback plan brings it nearer to the
\* return: it calls no tool, raises nothing and asks for no further plan
FallbackRunsClean ==
    FallbackAttempt =>
        /\ invocations' = invocations
        /\ requests' = requests
        /\ replans_used' = replans_used
        /\ Progress(pc') > Progress(pc)
        /\ pc' # "done" => current_plan' = FallbackPlan

\* the attempt on the fallback plan is never stuck
FallbackCanStep == FallbackAttempt => ENABLED <<Next>>_vars

\* C24: when a replan returns the compose-only fallback plan, the next
\* attempt invokes no tool and succeeds: execute_with_replanning returns
\* normally, without a further replan (the attempt can always take a step,
\* and each of its at most three steps leads towards the return).
C24_FallbackTerminates ==
    []FallbackCanStep /\ [][FallbackRunsClean]_vars

\* the run has returned the fallback plan after a replan, with no tool
\* result collected on the way
C24_Witness ==
    /\ pc = "done"
    /\ requests > 0
    /\ current_plan = FallbackPlan
    /\ replans_used = requests
    /\ tool_calls = <<>>

\* the backend calls of one generate_plan call: the generation call and one
\* call per repair round
CallsBounded ==
    /\ llm_calls <= 1 + MAX_JSON_REPAIR_ATTEMPTS
    /\ attempt <= MAX_JSON_REPAIR_ATTEMPTS
    /\ gp_pc = "parse" => llm_calls = 1 + attempt
    /\ plan_fault = "not_valid_json_after_repair" =>
          /\ gp_pc = "raised"
          /\ llm_calls = 1 + MAX_JSON_REPAIR_ATTEMPTS
          /\ ~ParseJson(text).ok

\* the text of the last repair round does not parse
RepairExhausted ==
    /\ gp_pc = "parse"
    /\ attempt = MAX_JSON_REPAIR_ATTEMPTS
    /\ ~ParseJson(text).ok

\* when the rounds are used up the parsing fault is raised, and once
\* generate_plan has raised or returned the backend is not called again
ExhaustionIsTerminal ==
    /\ RepairExhausted =>
          /\ gp_pc' = "raised"
          /\ plan_fault' = "not_valid_json_after_repair"
          /\ llm_calls' = llm_calls
    /\ gp_pc \in {"raised", "returned"} => llm_calls' = llm_calls

\* C27: generate_plan makes one generation call plus at most
\* MAX_JSON_REPAIR_ATTEMPTS repair calls; when the last text still does not
\* give a valid plan it raises the parsing fault and does not call the
\* backend again.
C27_BoundedBackendCalls == []CallsBounded /\ [][ExhaustionIsTerminal]_vars

\* three texts that do not parse: the fault after 1 + 2 backend calls
C27_Witness ==
    /\ gp_pc = "raised"
    /\ plan_fault = "not_valid_json_after_repair"
    /\ llm_calls = 1 + MAX_JSON_REPAIR_ATTEMPTS
    /\ attempt = MAX_JSON_REPAIR_ATTEMPTS

\* the backend's text is a plan object, about to be parsed
ParsingPlan == gp_pc = "parse" /\ text.kind = "plan"

\* the steps handed to _prune_intermediate_non_tool_steps for a text
BeforePrune(t) ==
    EnsureComposeAnswer(CoerceUnknownToolsToNone(EnsureStepFields(t.steps)))

\* a step the pruning keeps: it has a tool or was coerced
IsKept(st) == st.id # ComposeId /\ (st.tool # NoTool \/ st.coerced)

\* C33: step pruning keeps all tool steps and all coerced-unknown steps in
\* their original relative order, drops every other non-tool step, and
\* places the compose step last.
C33_PruneKeepsOrder ==
    ParsingPlan =>
        LET pruned == PruneIntermediateNonToolSteps(BeforePrune(text))
            n == Len(pruned)
        IN /\ pruned[n].id = ComposeId
           /\ SubSeq(pruned, 1, n - 1) = SelectSeq(BeforePrune(text), IsKept)

\* what the pruning does keep: the order among the tool steps and the order
\* among the coerced steps, the coerced steps after every tool step
PruneKeepsOrderWithinKinds ==
    ParsingPlan =>
        LET pruned == PruneIntermediateNonToolSteps(BeforePrune(text))
            n == Len(pruned)
        IN /\ pruned[n].id = ComposeId
           /\ SubSeq(pruned, 1, n - 1)
                = SelectSeq(BeforePrune(text),
                            LAMBDA st : st.id # ComposeId /\ st.tool # NoTool)
                  \o SelectSeq(BeforePrune(text),
                               LAMBDA st : st.id # ComposeId /\ st.tool = NoTool /\ st.coerced)

\* every requires entry of `steps` names another step of `steps`
RequiresResolved(steps) ==
    \A i \in 1..Len(steps) :
        \A n \in 1..Len(steps[i].requires) :
            /\ steps[i].requires[n] # steps[i].id
            /\ \E j \in 1..Len(steps) : j # i /\ steps[j].id = steps[i].requires[n]

\* C34: after normalisation every requires entry of every step names the id
\* of a different step of the normalised plan; entries naming unknown ids,
\* pruned steps or the step itself are dropped.
C34_RequiresResolved ==
    /\ ParsingPlan => RequiresResolved(NormalisePlanJson(text.steps).steps)
    /\ Normalised => RequiresResolved(plan_json)
    /\ ReturnedNormalised => RequiresResolved(returned_plan)

\* step b was proposed with requires ["a", "zz"]: "zz" is gone, "a" is kept
\* because the coerced step a is in the plan
C34_Witness ==
    /\ ReturnedNormalised
    /\ \E i \in 1..Len(plan_json) :
          /\ plan_json[i].id = "b"
          /\ plan_json[i].requires = <<"a">>
    /\ \E j \in 1..Len(plan_json) : plan_json[j].id = "a" /\ plan_json[j].coerced

\* step b was proposed with requires ["a", "zz"] and step a is pruned or
\* missing: nothing is left of the list
C34_WitnessPruned ==
    /\ ReturnedNormalised
    /\ \E i \in 1..Len(plan_json) :
          /\ plan_json[i].id = "b"
          /\ plan_json[i].tool = "get_time"
          /\ plan_json[i].requires = <<>>

\* the repair rounds are used up and the parsing fault was raised
RepairFaultRaised == gp_pc = "raised" /\ plan_fault = "not_valid_json_after_repair"

\* C36: when the repair attempts are exhausted, the parsing fault carries the
\* last text that failed to parse, the output of the final repair round, not
\* an earlier one.
C36_FaultCarriesLastText == RepairFaultRaised => FaultRaw = text

\* what the fault does carry: the first output of the backend
FaultCarriesFirstOutput ==
    /\ [](gp_pc = "parse" => FaultRaw # NoTextYet)
    /\ [][(gp_pc = "parse" /\ (gp_pc' = "parse" \/ RepairFaultRaised'))
              => FaultRaw' = FaultRaw]_vars


(***************************************************************************)
(* Claims about Orchestrator.run_work_items (SpecOrch)                     *)
(***************************************************************************)
\* distinct ids, every dependency key produced by an item of the list, and
\* the items can be ranked so that every producer ranks below its consumers
WellFormedItems(items) ==
    /\ \A i, j \in 1..Len(items) : i # j => items[i].id # items[j].id
    /\ \A i \in 1..Len(items) :
          items[i].depends_on \subseteq {KeyOf(items[j].id) : j \in 1..Len(items)}
    /\ \E rank \in [1..Len(items) -> 1..Len(items)] :
          \A i, j \in 1..Len(items) :
              KeyOf(items[j].id) \in items[i].depends_on => rank[j] < rank[i]

\* C4: when run_work_items returns for an acyclic list whose dependencies
\* are all produced in the list, every item has been executed exactly once
\* and has its "<id>.output" artifact, with parallel execution on or off.
C4_EveryItemRunsOnce ==
    (orch_pc = "returned" /\ WellFormedItems(work_items)) =>
        /\ \A i \in 1..Len(work_items) :
              /\ executed[i] = 1
              /\ KeyOf(work_items[i].id) \in DOMAIN artifacts
              /\ artifacts[KeyOf(work_items[i].id)].producer = work_items[i].id
        /\ DOMAIN artifacts = {KeyOf(work_items[i].id) : i \in 1..Len(work_items)}

\* some remaining item waits for a key that is neither recorded nor the
\* output key of a remaining item
WaitsForUnproducedKey ==
    \E i \in Range(remaining) :
        \E d \in work_items[i].depends_on :
            /\ d \notin DOMAIN artifacts
            /\ d \notin {KeyOf(work_items[j].id) : j \in Range(remaining)}

\* C7: when no remaining item is runnable, the missing-artifacts fault is
\* raised for a dependency key nobody produces, and the "no runnable items"
\* fault for a dependency cycle among the remaining items.
C7_CycleIsNotMissingArtifacts ==
    (orch_pc = "raised" /\ orch_fault.msg \in {"missing_artifacts", "no_runnable_items"}) =>
        (orch_fault.msg = "missing_artifacts" <=> WaitsForUnproducedKey)

\* C8: when an item of a parallel wave times out, the siblings that
\* completed have their outputs recorded.
C8_TimeoutSparesSiblings ==
    (orch_pc = "raised" /\ orch_fault.msg = "timeout" /\ WellFormedItems(work_items)) =>
        \A k \in Wave :
            tasks[k] = "done" => KeyOf(work_items[ready_wave[k]].id) \in DOMAIN artifacts

\* the items of the wave being run have every key of their depends_on
WaveIsReady ==
    orch_pc \in {"sequential", "parallel"} =>
        \A k \in 1..Len(ready_wave) :
            Item(ready_wave[k]).depends_on \subseteq DOMAIN artifacts

\* a role unit is called only for an item of the wave being run, and every
\* key of its depends_on is in the RunContext at that moment
InvokedWithDependencies ==
    \A i \in DOMAIN executed :
        executed'[i] > executed[i] =>
            /\ i \in Range(ready_wave)
            /\ Item(i).depends_on \subseteq DOMAIN artifacts

\* C14: a role unit is never invoked before every key of its item's
\* depends_on is in the RunContext, in a parallel wave as in a sequential one.
C14_DependenciesBeforeInvocation ==
    []WaveIsReady /\ [][InvokedWithDependencies]_vars

\* a parallel wave in which the unit of a dependent item is executing
C14_Witness ==
    /\ orch_pc = "parallel"
    /\ \E k \in executing :
          /\ Item(ready_wave[k]).depends_on # {}
          /\ Item(ready_wave[k]).depends_on \subseteq DOMAIN artifacts

\* keys of the depends_on of item i that no item of the list produces
Unproduced(i) ==
    Item(i).depends_on \ {KeyOf(work_items[j].id) : j \in 1..Len(work_items)}

HasUnproducedKey == \E i \in 1..Len(work_items) : Unproduced(i) # {}

\* the missing-artifact fault names every unproduced key for its item
NamesUnproducedKeys ==
    /\ orch_fault.msg = "missing_artifacts"
    /\ \A i \in 1..Len(work_items) :
          Unproduced(i) # {} =>
              \E d \in orch_fault.detail :
                  d.id = Item(i).id /\ Unproduced(i) \subseteq d.missing

\* the faults that end a run before the loop finds no item runnable
EarlierFaults == {"too_many_work_items", "unit_raised", "timeout", "artifact_exists"}

\* C15: when an item declares a key that no item produces, run_work_items
\* does not return; it raises, and unless a fault of another kind ended the
\* run before, it raises the missing-artifact fault naming that key for
\* that item.
C15_UnproducedKeyRaises ==
    HasUnproducedKey =>
        /\ orch_pc # "returned"
        /\ orch_pc = "raised" =>
              orch_fault.msg \in EarlierFaults \/ NamesUnproducedKeys

ItemIdsDistinct ==
    \A i, j \in 1..Len(work_items) : i # j => work_items[i].id # work_items[j].id

\* with pairwise distinct item ids the statement of C15 holds
UnproducedKeyRaisesForDistinctIds == ItemIdsDistinct => C15_UnproducedKeyRaises

\* snapshot_selected never raises: readiness is checked before every call
SnapshotNeverRaises == orch_fault.msg # "snapshot_missing" /\ wave_fault # "snapshot_missing"

\* the artifacts named by the depends_on of item i, and nothing else
NamedArtifacts(i) == [k \in Item(i).depends_on |-> artifacts[k]]

\* C16: the input a role unit is called with is composed of its item (goal
\* and raw inputs) and of exactly the artifacts its depends_on names; for an
\* empty depends_on nothing is selected, whatever the RunContext holds.
C16_InputFromDeclaredDependencies ==
    /\ \A i \in DOMAIN executed :
          executed[i] > 0 => user_input[i] = ComposeUserInput(i, NamedArtifacts(i))
    /\ \A i \in DOMAIN executed :
          Item(i).depends_on = {} =>
              /\ SelectedFor(i, artifacts).ok
              /\ SelectedFor(i, artifacts).selected = NoArtifacts
              /\ executed[i] > 0 => user_input[i].selected = NoArtifacts

\* a unit was called with one artifact selected while the RunContext held
\* another one as well, and an item without dependencies faces a RunContext
\* that is not empty
C16_Witness ==
    /\ \E i \in DOMAIN executed :
          /\ executed[i] > 0
          /\ DOMAIN user_input[i].selected = {KeyOf("w1")}
          /\ KeyOf("w2") \in DOMAIN artifacts
          /\ artifacts[KeyOf("w2")].producer # Item(i).id
    /\ \E i \in DOMAIN executed : Item(i).depends_on = {} /\ executed[i] > 0

\* C17: for a list of one item, run_work_items returns the very string the
\* role unit returned: no header, nothing trimmed, nothing wrapped around it.
C17_SingleItemReturnedRaw ==
    (orch_pc = "returned" /\ Len(work_items) = 1) =>
        /\ merged.kind = "raw"
        /\ merged.sections = <<>>
        /\ executed[1] = 1
        /\ merged.body = artifacts[KeyOf(work_items[1].id)].value
        /\ merged.body = results[work_items[1].id]
        /\ merged.body \in Outputs

\* the unit of the only item returned text that ends in blanks and a newline
C17_Witness ==
    /\ orch_pc = "returned"
    /\ Len(work_items) = 1
    /\ merged.body = "text \n"
    /\ Rstrip(merged.body) # merged.body

\* add_artifact under a key the map holds raises and changes nothing
AddExistingKeyRaises ==
    \A i \in DOMAIN executed :
        KeyOf(Item(i).id) \in DOMAIN artifacts =>
            \A out \in Outputs :
                LET st == RecordOutput(i, out, [ok |-> TRUE, artifacts |-> artifacts,
                                                results |-> results])
                IN ~st.ok /\ st.artifacts = artifacts /\ st.results = results

\* every artifact of the map is in the map after the step, unchanged
ArtifactsKept ==
    \A k \in DOMAIN artifacts : k \in DOMAIN artifacts' /\ artifacts'[k] = artifacts[k]

\* C18: the artifact map is append-only: adding under an existing key raises
\* and leaves the map as it was, and no step overwrites or removes an artifact.
C18_ArtifactsAppendOnly ==
    []AddExistingKeyRaises /\ [][ArtifactsKept]_vars

\* a second output for the key "w1.output" was refused: the run raised and
\* the first artifact is still there
C18_Witness ==
    /\ orch_pc = "raised"
    /\ orch_fault.msg = "artifact_exists"
    /\ KeyOf("w1") \in DOMAIN artifacts
    /\ artifacts[KeyOf("w1")].producer = "w1"

\* C19: during a parallel wave at most max_concurrency role units execute at
\* the same time, also after an item of the wave has timed out.
C19_ConcurrencyBounded ==
    Cardinality(executing) <= policy.max_concurrency

\* as long as no item of the wave timed out, the semaphore bounds the units
BoundedUntilTimeout ==
    (\A k \in Wave : tasks[k] # "timed_out") => C19_ConcurrencyBounded

\* positions of the tool steps of the plan handed to execute_plan
ToolStepAt == {i \in 1..Len(input_plan) : IsToolStep(input_plan[i])}

\* the observation map handed to execute_plan, under the normalised ids
CarriedIds == DOMAIN RemapObservations(input_obs, IdMap(input_plan))

\* positions of the tool steps whose (normalised) id is not in that map
DueAt == {i \in ToolStepAt : exec_plan[i].id \notin CarriedIds}

\* how many times `id` is listed in tool_calls
CallsOf(id) == Cardinality({k \in 1..Len(exec_calls) : exec_calls[k] = id})

\* C20: when execute_plan returns, the tool of every tool step whose id is
\* not in the observation map was invoked exactly once, nothing was invoked
\* for a step whose id is in the map, and tool_calls lists exactly the
\* invocations of this call.
C20_RunsExactlyTheMissingSteps ==
    pc = "exec_returned" =>
        /\ invocations = Cardinality(DueAt)
        /\ Len(exec_calls) = invocations
        /\ \A i \in DueAt : CallsOf(exec_plan[i].id) = 1
        /\ \A i \in ToolStepAt \ DueAt : CallsOf(exec_plan[i].id) = 0
        /\ Range(exec_calls) = {exec_plan[i].id : i \in DueAt}

\* outside the id collisions the statement about execute_plan holds
RunsMissingStepsWithoutCollision ==
    NoIdCollision(input_plan) => C20_RunsExactlyTheMissingSteps

\* a step carried in the map was skipped and another one was run
SkippedAndRun ==
    /\ pc = "exec_returned"
    /\ NoIdCollision(input_plan)
    /\ ToolStepAt \ DueAt # {}
    /\ DueAt # {}
    /\ Len(exec_calls) = 1

Upstream(i) ==
    {j \in 1..Len(work_items) : KeyOf(work_items[j].id) \in work_items[i].depends_on}

\* every depends_on key is the output key of an item earlier in the list
WiredToEarlierItems ==
    \A i \in 1..Len(work_items) :
        \A d \in work_items[i].depends_on :
            \E j \in 1..(i - 1) : d = KeyOf(work_items[j].id)

\* C25: in each built-in template every depends_on key is the output key of
\* an earlier item; run_template runs each item once, after all its upstream
\* items and with their artifacts in its input, runs all of them when it
\* returns, and never raises a missing-artifact or cycle fault.
C25_TemplatesRunInDependencyOrder ==
    work_items \in TemplateLists =>
        /\ WiredToEarlierItems
        /\ orch_fault.msg \notin {"missing_artifacts", "no_runnable_items",
                                  "snapshot_missing", "artifact_exists"}
        /\ \A i \in DOMAIN executed :
              /\ executed[i] <= 1
              /\ executed[i] = 1 =>
                    /\ \A j \in Upstream(i) : executed[j] = 1
                    /\ DOMAIN user_input[i].selected = work_items[i].depends_on
                    /\ \A j \in Upstream(i) :
                          user_input[i].selected[KeyOf(work_items[j].id)].producer
                              = work_items[j].id
        /\ orch_pc = "returned" => \A i \in DOMAIN executed : executed[i] = 1

\* draft_review_revise has returned: the revision was fed the draft and the
\* review
C25_Witness ==
    /\ orch_pc = "returned"
    /\ work_items = BuildWorkItemsForTemplate("draft_review_revise")
    /\ executed = <<1, 1, 1>>
    /\ DOMAIN user_input[3].selected = {"draft.output", "review.output"}
    /\ Len(merged.sections) = 3

\* the artifact keys of the items of the current wave
WaveKeys == {KeyOf(Item(ready_wave[k]).id) : k \in 1..Len(ready_wave)}

\* the RunContext is written only when no unit is executing: in the parallel
\* branch after every task of the wave is done
WrittenOnlyWhenIdle ==
    artifacts' # artifacts =>
        /\ executing = {}
        /\ executing' = {}
        /\ orch_pc \in {"sequential", "parallel"}
        /\ orch_pc = "parallel" => \A k \in Wave : tasks[k] = "done"

\* while a parallel wave runs no artifact of the wave exists, and no item
\* of the wave was handed one
NoArtifactOfOwnWave ==
    orch_pc \in {"parallel", "aborting"} =>
        /\ DOMAIN artifacts \cap WaveKeys = {}
        /\ \A k \in 1..Len(ready_wave) :
              DOMAIN user_input[ready_wave[k]].selected \cap WaveKeys = {}

\* every artifact is whole: the output of an item that was executed, under
\* that item's key, with the item as producer, as in the results
RecordedWhole ==
    /\ DOMAIN artifacts = {KeyOf(id) : id \in DOMAIN results}
    /\ \A id \in DOMAIN results :
          /\ artifacts[KeyOf(id)] = [value |-> results[id], producer |-> id]
          /\ results[id] \in Outputs
          /\ \E i \in DOMAIN executed : Item(i).id = id /\ executed[i] >= 1

\* C29: the RunContext is never written while an item of a wave is
\* executing: the artifacts of a wave are recorded after its items have
\* completed, no item observes an artifact of its own wave, and every
\* artifact is recorded whole or not at all.
C29_WritesAfterWave ==
    /\ []NoArtifactOfOwnWave
    /\ []RecordedWhole
    /\ [][WrittenOnlyWhenIdle]_vars

\* a parallel wave of two items has been recorded and the next wave is
\* about to be computed
C29_Witness ==
    /\ orch_pc = "loop"
    /\ Len(tasks) = 2
    /\ \A k \in Wave : tasks[k] = "done"
    /\ WaveKeys \subseteq DOMAIN artifacts
    /\ Cardinality(WaveKeys) = 2
    /\ remaining # <<>>

\* the tasks of the wave whose unit call is awaited inside `async with sem`
SlotsInUse == Cardinality({k \in Wave : tasks[k] = "running"})

\* an item of the wave has timed out, another still waits for a slot, and
\* fewer than max_concurrency tasks hold one
WaitingAfterTimeout ==
    /\ orch_pc = "parallel"
    /\ \E k \in Wave : tasks[k] = "timed_out"
    /\ \E k \in Wave : tasks[k] = "pending"
    /\ SlotsInUse < policy.max_concurrency

\* the slot of the timed-out item can be taken
FreedSlotCanBeTaken == WaitingAfterTimeout => ENABLED <<AcquireSlot>>_vars

\* the timeout gives the slot back, and the next step hands it to the
\* longest-waiting item of the wave
FreedSlotIsTaken ==
    /\ \A k \in Wave :
          (orch_pc = "parallel" /\ tasks[k] = "running" /\ tasks'[k] = "timed_out") =>
              /\ SlotsInUse' = SlotsInUse - 1
              /\ SlotsInUse' < policy.max_concurrency
    /\ WaitingAfterTimeout =>
          \E k \in Wave :
              /\ tasks[k] = "pending"
              /\ \A j \in 1..(k - 1) : tasks[j] # "pending"
              /\ tasks'[k] \in {"running", "failed"}
              /\ orch_pc' = "parallel"

\* C30: an item that times out in a parallel wave gives back its slot, so
\* an item of the wave that waits for a slot is not blocked by it: the
\* waiting item takes the slot in the next step, and so does not wait
\* forever.
C30_TimeoutReleasesSlot ==
    /\ []FreedSlotCanBeTaken
    /\ [][FreedSlotIsTaken]_vars
    /\ WaitingAfterTimeout ~> ~WaitingAfterTimeout

\* max_concurrency 1: the first item timed out and the second, which had
\* been waiting, holds the slot
C30_Witness ==
    /\ orch_pc = "parallel"
    /\ policy.max_concurrency = 1
    /\ Len(tasks) >= 2
    /\ tasks[1] = "timed_out"
    /\ tasks[2] = "running"
    /\ executed[ready_wave[2]] = 1

\* the positions of the remaining items whose every key is in the RunContext
Eligible ==
    {remaining[k] : k \in {m \in 1..Len(remaining) :
                              Item(remaining[m]).depends_on \subseteq DOMAIN artifacts}}

\* the wave taken at the head of the loop holds every eligible item, in the
\* order of the list
WaveIsMaximal ==
    (orch_pc = "loop" /\ orch_pc' \in {"sequential", "parallel"}) =>
        /\ {ready_wave'[k] : k \in 1..Len(ready_wave')} = Eligible
        /\ \A k \in 1..(Len(ready_wave') - 1) : ready_wave'[k] < ready_wave'[k + 1]
        /\ (policy.enable_parallel /\ Cardinality(Eligible) > 1) => orch_pc' = "parallel"

\* the smaller of two numbers
Least(a, b) == IF a < b THEN a ELSE b

\* in a parallel wave, once no task can take a slot and none has ended, as
\* many units execute at once as the wave and max_concurrency allow
RunsSideBySide ==
    (/\ orch_pc = "parallel"
     /\ ~(\E k \in Wave : tasks[k] = "pending" /\
             Cardinality({j \in Wave : tasks[j] = "running"}) < policy.max_concurrency)
     /\ \A k \in Wave : tasks[k] \in {"pending", "running"}) =>
        Cardinality(executing) = Least(Len(ready_wave), policy.max_concurrency)

\* C31: a wave holds every remaining item whose depends_on keys are all in
\* the RunContext; with parallel execution enabled and max_concurrency >= 2
\* two such items execute at the same time.
C31_WaveIsMaximal == []RunsSideBySide /\ [][WaveIsMaximal]_vars

\* w1 and w2 without dependencies, max_concurrency 2: both units executing
C31_Witness ==
    /\ orch_pc = "parallel"
    /\ policy.max_concurrency >= 2
    /\ Len(ready_wave) = 2
    /\ work_items[ready_wave[1]].depends_on = {}
    /\ work_items[ready_wave[2]].depends_on = {}
    /\ executing = {1, 2}

\* run_work_items has come to its end
RunEnded == orch_pc \in {"returned", "raised"}

\* a pass of the scheduling loop that comes back to the loop test has taken
\* at least one item out of the remaining list
PassShrinks ==
    (orch_pc \in {"sequential", "parallel"} /\ orch_pc' = "loop") =>
        /\ Len(remaining') < Len(remaining)
        /\ Len(remaining') <= Len(work_items) - 1

\* a pass begins a wave or ends the run; an ended run takes no step
PassBeginsOrEnds ==
    /\ orch_pc = "loop" => orch_pc' \in {"returned", "raised", "sequential", "parallel"}
    /\ orch_pc = "loop" => remaining' = remaining
    /\ ~RunEnded

C40_WitnessTimeout ==
    /\ orch_pc = "raised"
    /\ orch_fault.msg = "timeout"
    /\ remaining # <<>>


(***************************************************************************)
(* Claims about Agent.run (SpecTurn)                                       *)
(***************************************************************************)
\* C28: a request of the shape "return/output exactly: X" whose plan has the
\* compose step only returns exactly X, with no backend call.
C28_LiteralPassthrough ==
    (/\ turn_pc = "returned"
     /\ turn_input.shape \in ExactShapes
     /\ turn_plan = ToPlan(DeterministicReplanPlan)) =>
        /\ turn_answer = turn_input.literal
        /\ turn_llm_calls = 0

\* "Return exactly the string: OK" with the compose-only plan
C28_Witness ==
    /\ turn_pc = "returned"
    /\ turn_input = [shape |-> "return exactly", literal |-> "OK"]
    /\ turn_plan = ToPlan(DeterministicReplanPlan)
    /\ turn_answer = "OK"
    /\ turn_llm_calls = 0

(***************************************************************************)
(* Claims about RunContext.snapshot_selected (SpecSnap)                    *)
(***************************************************************************)
\* the call raises exactly when a requested key is absent, naming the
\* absent keys; else the view has the requested keys and no others, each
\* with the artifact's value and producer
RaisesOrSelects ==
    snap_pc \in {"returned", "raised"} =>
        /\ snap_pc = "raised" <=> \E k \in snap_keys : k \notin DOMAIN artifacts
        /\ snap_pc = "raised" =>
              /\ snap_result.raised
              /\ snap_result.missing = snap_keys \ DOMAIN artifacts
        /\ snap_pc = "returned" =>
              /\ ~snap_result.raised
              /\ DOMAIN snap_result.view = snap_keys
              /\ \A k \in snap_keys : snap_result.view[k] = artifacts[k]

\* the call leaves the RunContext as it was
ContextUntouched == artifacts' = artifacts

\* C32: snapshot_selected(keys) raises the missing-artifacts fault if a
\* requested key is absent from the RunContext, and otherwise returns a view
\* of exactly the requested keys; the RunContext is unchanged.
C32_SnapshotSelected == []RaisesOrSelects /\ [][ContextUntouched]_vars

\* one of two artifacts is requested and returned alone
C32_Witness ==
    /\ snap_pc = "returned"
    /\ snap_keys = {"w1.output"}
    /\ DOMAIN artifacts = {"w1.output", "w2.output"}
    /\ DOMAIN snap_result.view = {"w1.output"}

\* a stray key is requested next to a recorded one
C32_WitnessRaised ==
    /\ snap_pc = "raised"
    /\ snap_keys = {"w1.output", StrayKey}
    /\ DOMAIN artifacts = {"w1.output"}
    /\ snap_result.missing = {StrayKey}


=============================================================================
